---- MODULE Spec2Model ----
(***************************************************************************)
(* IndexMap (src/src/map.ts, final variant, lines 1041-1740): a hash table *)
(* `#map` (a JavaScript Map, which iterates in key insertion order) from   *)
(* hashed key to bucket [index, value], layered over the array `#indices`  *)
(* of original keys.                                                       *)
(*                                                                         *)
(* Encoding.  A JavaScript Map is a sequence of records [k, idx, val] in   *)
(* insertion order.  `#indices` is a sequence; Hole stands for an array    *)
(* hole / undefined.  Every return value is a sequence: <<>> is undefined, *)
(* <<v>> a value, <<k, v>> a pair, <<i, k, v>> a full entry.  A call ends  *)
(* with an outcome: "ok", "TypeError", "RangeError" or "hang"; `outcome`   *)
(* is the outcome of the latest call.                                      *)
(***************************************************************************)
EXTENDS Integers, Sequences, FiniteSets, TLC

VARIABLES map, indices, hasher, outcome, unsound, log, copy

vars == <<map, indices, hasher, outcome, unsound, log, copy>>

\* ------------------------------------------------------------------ bounds
MaxKey == 3
MaxVal == 2
MaxCap == 1
MaxUnsound == 0
MaxSteps == 1
MaxReplace == 2
MaxPulls == 3
MaxPairs == 3

Keys == 1..MaxKey
Values == 1..MaxVal
Hole == 0
None == <<>>

Hashers == {"valueOf", "toPrimitive"}

\* ------------------------------------------------------- program constants
INDEX == 0
BUCKET_VALUE == 1
ENTRY_KEY == 1
ENTRY_VALUE == 2

\* ----------------------------------------------------------------- hashing
\* valueOf (map.ts:1076) is the default hasher: the key itself.  The custom
\* hasher is the one of the tests, k => k.to_primitive(): distinct key
\* objects with equal fields hash equal (keys 1 and 2, keys 3 and 4, ...; the
\* primitives lie above the keys), and hashing undefined raises.
valueOf(key) == key

to_primitive(key) == MaxKey + ((key + 1) \div 2)

hash(key) == IF hasher = "valueOf" THEN valueOf(key) ELSE to_primitive(key)

\* a hasher given as an argument
hashWith(h, key) == IF h = "valueOf" THEN valueOf(key) ELSE to_primitive(key)

hashThrows(key) == hasher = "toPrimitive" /\ key = Hole

\* --------------------------------------------------------- JavaScript Array
ArrGet(a, i) == IF i >= 0 /\ i < Len(a) THEN a[i + 1] ELSE Hole

ArrSet(a, i, x) ==
    IF i < Len(a) THEN [a EXCEPT ![i + 1] = x]
    ELSE a \o [j \in 1..(i - Len(a)) |-> Hole] \o <<x>>

\* the start position Array.prototype.splice computes from its first argument
SpliceStart(a, i) ==
    IF i < 0 THEN (IF Len(a) + i < 0 THEN 0 ELSE Len(a) + i)
    ELSE (IF i > Len(a) THEN Len(a) ELSE i)

\* a.splice(i, 1): the array left
SpliceRemove(a, i) ==
    LET s == SpliceStart(a, i)
    IN  IF s < Len(a) THEN SubSeq(a, 1, s) \o SubSeq(a, s + 2, Len(a)) ELSE a

\* a.splice(i, 1)[0]: the element removed (undefined when none is)
SpliceRemoved(a, i) == ArrGet(a, SpliceStart(a, i))

\* a.splice(i, 0, x)
SpliceInsert(a, i, x) ==
    LET s == SpliceStart(a, i)
    IN  SubSeq(a, 1, s) \o <<x>> \o SubSeq(a, s + 1, Len(a))

ArrReverse(a) == [j \in 1..Len(a) |-> a[Len(a) + 1 - j]]

swap(array, from_index, to_index) ==
    LET temp == ArrGet(array, to_index)
        a1 == ArrSet(array, to_index, ArrGet(array, from_index))
    IN  ArrSet(a1, from_index, temp)

\* ----------------------------------------------------------- JavaScript Map
MapPos(mp, h) ==
    IF \E p \in 1..Len(mp) : mp[p].k = h
    THEN CHOOSE p \in 1..Len(mp) : mp[p].k = h
    ELSE 0

MapHas(mp, h) == MapPos(mp, h) # 0

MapGet(mp, h) == mp[MapPos(mp, h)]

\* Map.prototype.set: an existing key keeps its place, a new key goes last
MapSet(mp, h, idx, val) ==
    IF MapHas(mp, h)
    THEN [mp EXCEPT ![MapPos(mp, h)] = [k |-> h, idx |-> idx, val |-> val]]
    ELSE Append(mp, [k |-> h, idx |-> idx, val |-> val])

MapDelete(mp, h) ==
    LET p == MapPos(mp, h)
    IN  IF p = 0 THEN mp ELSE SubSeq(mp, 1, p - 1) \o SubSeq(mp, p + 1, Len(mp))

\* ---------------------------------------------------------------- outcomes
NoOther == [map |-> <<>>, indices |-> <<>>]

Ok(mp, ind, ret) ==
    [map |-> mp, indices |-> ind, ret |-> ret, outcome |-> "ok", other |-> NoOther]

Raise(mp, ind, err) ==
    [map |-> mp, indices |-> ind, ret |-> None, outcome |-> err, other |-> NoOther]

oob(index, bounds) == index < 0 \/ index >= bounds

\* ------------------------------------------------------------------ queries
size(mp) == Len(mp)

has(mp, key) == MapHas(mp, hash(key))

get(mp, key) ==
    IF MapHas(mp, hash(key)) THEN <<MapGet(mp, hash(key)).val>> ELSE None

indexOf(mp, key) ==
    IF MapHas(mp, hash(key)) THEN MapGet(mp, hash(key)).idx ELSE -1

getFull(mp, ind, key) ==
    IF hashThrows(key) THEN Raise(mp, ind, "TypeError")
    ELSE IF ~MapHas(mp, hash(key)) THEN Ok(mp, ind, None)
    ELSE Ok(mp, ind, <<MapGet(mp, hash(key)).idx, key, MapGet(mp, hash(key)).val>>)

\* this.#map.get(this.#hash(this.#indices[index]))![BUCKET_VALUE]
BucketValueAt(mp, ind, index) ==
    LET key == ArrGet(ind, index)
    IN  IF hashThrows(key) \/ ~MapHas(mp, hash(key)) THEN Raise(mp, ind, "TypeError")
        ELSE Ok(mp, ind, <<MapGet(mp, hash(key)).val>>)

getIndex(mp, ind, index) ==
    IF oob(index, size(mp)) THEN Ok(mp, ind, None) ELSE BucketValueAt(mp, ind, index)

getIndexEntry(mp, ind, index) ==
    IF oob(index, size(mp)) THEN Ok(mp, ind, None)
    ELSE LET r == BucketValueAt(mp, ind, index)
         IN  IF r.outcome # "ok" THEN r
             ELSE Ok(mp, ind, <<ArrGet(ind, index)>> \o r.ret)

first(mp, ind) ==
    IF Len(ind) = 0 THEN Ok(mp, ind, None) ELSE BucketValueAt(mp, ind, 0)

lastValue(mp, ind) ==
    IF size(mp) - 1 >= 0 THEN getIndex(mp, ind, size(mp) - 1) ELSE Ok(mp, ind, None)

\* ---------------------------------------------------------------- insertion
\* mutant: a new key is put in front of the array instead of at index size
set_unshift(mp, ind, key, value) ==
    LET hashed_key == hash(key)
        idx == size(mp)
    IN  IF MapHas(mp, hashed_key)
        THEN Ok([mp EXCEPT ![MapPos(mp, hashed_key)].val = value], ind,
                <<MapGet(mp, hashed_key).val>>)
        ELSE Ok(MapSet(mp, hashed_key, idx, value), <<key>> \o ind, None)

\* mutant: overwriting an entry also stores the new key object in the array
set_replacesKey(mp, ind, key, value) ==
    LET hashed_key == hash(key)
        idx == size(mp)
    IN  IF MapHas(mp, hashed_key)
        THEN Ok([mp EXCEPT ![MapPos(mp, hashed_key)].val = value],
                ArrSet(ind, MapGet(mp, hashed_key).idx, key),
                <<MapGet(mp, hashed_key).val>>)
        ELSE Ok(MapSet(mp, hashed_key, idx, value), ArrSet(ind, idx, key), None)

set(mp, ind, key, value) ==
    LET hashed_key == hash(key)
        idx == size(mp)
    IN  IF MapHas(mp, hashed_key)
        THEN Ok([mp EXCEPT ![MapPos(mp, hashed_key)].val = value], ind,
                <<MapGet(mp, hashed_key).val>>)
        ELSE Ok(MapSet(mp, hashed_key, idx, value), ArrSet(ind, idx, key), None)

setFull(mp, ind, key, value) ==
    LET hashed_key == hash(key)
        idx == size(mp)
    IN  IF MapHas(mp, hashed_key)
        THEN Ok([mp EXCEPT ![MapPos(mp, hashed_key)].val = value], ind,
                <<MapGet(mp, hashed_key).idx, MapGet(mp, hashed_key).val>>)
        ELSE Ok(MapSet(mp, hashed_key, idx, value), ArrSet(ind, idx, key), <<idx, value>>)

\* ----------------------------------------------------------- shift removal
\* mutant: the stored indices above the removed one are not lowered
removeAndShiftIndices_none(mp, index) == mp

removeAndShiftIndices(mp, index) ==
    IF index = size(mp) THEN mp
    ELSE [p \in 1..Len(mp) |->
            IF p - 1 < index THEN mp[p] ELSE [mp[p] EXCEPT !.idx = @ - 1]]

shiftRemoveFullUnchecked(mp, ind, index, hashed, value) ==
    LET mp1 == MapDelete(mp, hashed)
    IN  Ok(removeAndShiftIndices(mp1, index), SpliceRemove(ind, index),
           <<index, SpliceRemoved(ind, index), value>>)

delete(mp, ind, key) ==
    IF hashThrows(key) THEN Raise(mp, ind, "TypeError")
    ELSE IF ~MapHas(mp, hash(key)) THEN Ok(mp, ind, None)
    ELSE LET bucket == MapGet(mp, hash(key))
             r == shiftRemoveFullUnchecked(mp, ind, bucket.idx, hash(key), bucket.val)
         IN  Ok(r.map, r.indices, <<r.ret[ENTRY_VALUE + 1]>>)

deleteEntry(mp, ind, key) ==
    IF hashThrows(key) THEN Raise(mp, ind, "TypeError")
    ELSE IF ~MapHas(mp, hash(key)) THEN Ok(mp, ind, None)
    ELSE LET bucket == MapGet(mp, hash(key))
             r == shiftRemoveFullUnchecked(mp, ind, bucket.idx, hash(key), bucket.val)
         IN  Ok(r.map, r.indices, <<key, bucket.val>>)

deleteFull(mp, ind, key) ==
    IF hashThrows(key) THEN Raise(mp, ind, "TypeError")
    ELSE IF ~MapHas(mp, hash(key)) THEN Ok(mp, ind, None)
    ELSE LET bucket == MapGet(mp, hash(key))
         IN  shiftRemoveFullUnchecked(mp, ind, bucket.idx, hash(key), bucket.val)

deleteIndex(mp, ind, index) ==
    LET k == ArrGet(ind, index)
    IN  IF hashThrows(k) THEN Raise(mp, ind, "TypeError")
        ELSE IF k = Hole THEN Ok(mp, ind, None)
        ELSE IF ~MapHas(mp, hash(k)) THEN Raise(mp, ind, "TypeError")
        ELSE LET r == shiftRemoveFullUnchecked(mp, ind, index, hash(k), MapGet(mp, hash(k)).val)
             IN  Ok(r.map, r.indices, <<r.ret[ENTRY_VALUE + 1]>>)

pop(mp, ind) ==
    IF size(mp) > 0 THEN delete(mp, ind, ArrGet(ind, size(mp) - 1)) ELSE Ok(mp, ind, None)

shift(mp, ind) ==
    IF size(mp) > 0 THEN delete(mp, ind, ArrGet(ind, 0)) ELSE Ok(mp, ind, None)

shiftEntry(mp, ind) ==
    IF size(mp) > 0 THEN deleteEntry(mp, ind, ArrGet(ind, 0)) ELSE Ok(mp, ind, None)

clear(mp, ind) == Ok(<<>>, <<>>, None)

\* --------------------------------------------------------------- reordering
\* mutant: the array slots are exchanged, the stored indices are not
swapIndices_keepsStoredIndices(mp, ind, from, to) ==
    LET max == size(mp) - 1
    IN  IF from > max \/ to > max \/ from < 0 \/ to < 0 THEN Ok(mp, ind, None)
        ELSE Ok(mp, swap(ind, from, to), None)

swapIndices(mp, ind, from, to) ==
    LET max == size(mp) - 1
        ind1 == swap(ind, from, to)
        kfrom == ArrGet(ind1, from)
        kto == ArrGet(ind1, to)
    IN  IF from > max \/ to > max \/ from < 0 \/ to < 0 THEN Ok(mp, ind, None)
        ELSE IF hashThrows(kfrom) \/ hashThrows(kto) THEN Raise(mp, ind1, "TypeError")
        ELSE IF ~MapHas(mp, hash(kfrom)) \/ ~MapHas(mp, hash(kto))
             THEN Raise(mp, ind1, "TypeError")
        ELSE LET pfrom == MapPos(mp, hash(kfrom))
                 pto == MapPos(mp, hash(kto))
                 temp == mp[pfrom].idx
                 mp1 == [mp EXCEPT ![pfrom].idx = mp[pto].idx]
             IN  Ok([mp1 EXCEPT ![pto].idx = temp], ind1, None)

RECURSIVE shiftUp(_, _, _, _)
shiftUp(mp, ind, from, to) ==
    IF ~(from < to) THEN Ok(mp, ind, None)
    ELSE LET r == swapIndices(mp, ind, from, from + 1)
         IN  IF r.outcome # "ok" THEN r ELSE shiftUp(r.map, r.indices, from + 1, to)

\* i runs from `from - 1` down to `to`
RECURSIVE shiftDownFrom(_, _, _, _)
shiftDownFrom(mp, ind, i, to) ==
    IF ~(i >= to) THEN Ok(mp, ind, None)
    ELSE LET r == swapIndices(mp, ind, i + 1, i)
         IN  IF r.outcome # "ok" THEN r ELSE shiftDownFrom(r.map, r.indices, i - 1, to)

shiftDown(mp, ind, from, to) == shiftDownFrom(mp, ind, from - 1, to)

\* mutant: the entry is exchanged with the one at `to` instead of shifted
moveIndex_swaps(mp, ind, from, to) == swapIndices(mp, ind, from, to)

moveIndex(mp, ind, from, to) ==
    LET max == IF from <= to THEN from ELSE to
        min == IF from <= to THEN from ELSE to
    IN  IF min + 1 = max THEN swapIndices(mp, ind, min, max)
        ELSE IF from < to THEN shiftUp(mp, ind, from, to)
        ELSE shiftDown(mp, ind, from, to)

RECURSIVE syncIndices(_, _, _, _)
syncIndices(mp, ind, from, to) ==
    IF ~(from < to) THEN Ok(mp, ind, None)
    ELSE LET key == ArrGet(ind, from)
         IN  IF hashThrows(key) \/ ~MapHas(mp, hash(key)) THEN Raise(mp, ind, "TypeError")
             ELSE syncIndices([mp EXCEPT ![MapPos(mp, hash(key))].idx = from], ind, from + 1, to)

\* mutant: the array is reversed, the stored indices are not resynchronized
reverse_noSync(mp, ind) == Ok(mp, ArrReverse(ind), None)

reverse(mp, ind) == syncIndices(mp, ArrReverse(ind), 0, size(mp))

\* Comparators.  "none" is the default of sort (a < b, a > b on the keys; key
\* objects compare by their primitive); "desc" is the comparator of the
\* test 'sort'.
Cmps == {"none", "desc"}

Prim(key) == hash(key)

compare(cmp, a, b) ==
    IF cmp = "none"
    THEN (IF Prim(a) < Prim(b) THEN -1 ELSE IF Prim(a) > Prim(b) THEN 1 ELSE 0)
    ELSE IF cmp = "zero" THEN 0
    ELSE (IF Prim(a) < Prim(b) THEN 1 ELSE IF Prim(a) = Prim(b) THEN 0 ELSE -1)

\* Array.prototype.sort: stable; undefined elements and holes never reach
\* the comparator and end up last.
RECURSIVE SortInsert(_, _, _)
SortInsert(cmp, sorted, x) ==
    IF sorted = <<>> THEN <<x>>
    ELSE IF compare(cmp, sorted[Len(sorted)], x) <= 0 THEN Append(sorted, x)
    ELSE Append(SortInsert(cmp, SubSeq(sorted, 1, Len(sorted) - 1), x), sorted[Len(sorted)])

RECURSIVE SortDefined(_, _)
SortDefined(cmp, a) ==
    IF a = <<>> THEN <<>>
    ELSE SortInsert(cmp, SortDefined(cmp, SubSeq(a, 1, Len(a) - 1)), a[Len(a)])

ArrSort(cmp, a) ==
    LET defined == SelectSeq(a, LAMBDA x : x # Hole)
    IN  SortDefined(cmp, defined) \o [j \in 1..(Len(a) - Len(defined)) |-> Hole]

\* the number of calls in which the comparator of isSorted sees a > b.
\* The comparator answers 0 every time, so the engine compares neighbours
\* only; which of the two it passes first is implementation-defined:
\* laterFirst[i] says that the i-th comparison is cmp(d[i + 1], d[i]).
isSorted_calls(d, laterFirst) ==
    Cardinality({i \in 1..(Len(d) - 1) :
                    IF laterFirst[i] THEN Prim(d[i + 1]) > Prim(d[i])
                    ELSE Prim(d[i]) > Prim(d[i + 1])})

\* the end of isSorted: return calls === 0
isSorted_return(r, calls) ==
    IF r.outcome # "ok" THEN r ELSE Ok(r.map, r.indices, <<calls = 0>>)

\* the orders of the arguments an engine may use on the defined elements
\* of the array
ArgOrders(ind) == [1..(Len(SelectSeq(ind, LAMBDA x : x # Hole)) - 1) -> BOOLEAN]

\* IndexMap.isSorted: this.sort(cmp) with a comparator that counts and
\* returns 0
isSorted(mp, ind, laterFirst) ==
    isSorted_return(syncIndices(mp, ArrSort("zero", ind), 0, size(mp)),
                    isSorted_calls(SelectSeq(ind, LAMBDA x : x # Hole), laterFirst))

\* mutant: the comparator passed in is ignored
sort_ignoresCmp(mp, ind, cmp) == syncIndices(mp, ArrSort("none", ind), 0, size(mp))

sort(mp, ind, cmp) == syncIndices(mp, ArrSort(cmp, ind), 0, size(mp))

\* the existing-key branch after its moveIndex, whose outcome is r: the
\* value written to entry[ENTRY_VALUE] goes into the array getFull built,
\* not into the bucket, and the old value is returned
shiftInsert_moved(r, old_value) ==
    IF r.outcome # "ok" THEN r ELSE Ok(r.map, r.indices, <<old_value>>)

\* mutant: a new key is spliced in without resynchronizing the indices of
\* the entries behind it
shiftInsert_noSync(mp, ind, index, key, value) ==
    IF index > size(mp) THEN Raise(mp, ind, "RangeError")
    ELSE LET entry == getFull(mp, ind, key).ret
         IN  IF entry # None
             THEN shiftInsert_moved(moveIndex(mp, ind, entry[INDEX + 1], index),
                                    entry[ENTRY_VALUE + 1])
             ELSE Ok(MapSet(mp, hash(key), index, value),
                     SpliceInsert(ind, index, key), None)

\* mutant: the range check comes after the insertion
shiftInsert_guardAfter(mp, ind, index, key, value) ==
    IF index > size(mp)
    THEN Raise(MapSet(mp, hash(key), index, value), SpliceInsert(ind, index, key),
               "RangeError")
    ELSE LET entry == getFull(mp, ind, key).ret
         IN  IF entry # None
             THEN shiftInsert_moved(moveIndex(mp, ind, entry[INDEX + 1], index),
                                    entry[ENTRY_VALUE + 1])
             ELSE syncIndices(MapSet(mp, hash(key), index, value),
                              SpliceInsert(ind, index, key), index, size(mp) + 1)

shiftInsert(mp, ind, index, key, value) ==
    IF index > size(mp) THEN Raise(mp, ind, "RangeError")
    ELSE LET entry == getFull(mp, ind, key).ret
         IN  IF entry # None
             THEN shiftInsert_moved(moveIndex(mp, ind, entry[INDEX + 1], index),
                                    entry[ENTRY_VALUE + 1])
             ELSE syncIndices(MapSet(mp, hash(key), index, value),
                              SpliceInsert(ind, index, key), index, size(mp) + 1)

\* v !== undefined ? [key, v] : undefined, for the outcome r of shiftInsert
shiftInsertEntry_return(r, key) ==
    IF r.outcome # "ok" \/ r.ret = None THEN r
    ELSE Ok(r.map, r.indices, <<key>> \o r.ret)

shiftInsertEntry(mp, ind, index, key, value) ==
    shiftInsertEntry_return(shiftInsert(mp, ind, index, key, value), key)

\* ------------------------------------------------------------ swap removal
\* mutant: the entry is not exchanged with the last one before the pop
\* return [index, key, this.pop()!], for the outcome r2 of the pop; the `!`
\* checks nothing, so a pop that returns undefined yields a hole as value
swapRemoveFull_return(r2, index, key) ==
    IF r2.outcome # "ok" THEN r2
    ELSE Ok(r2.map, r2.indices,
            <<index, key, IF r2.ret = None THEN Hole ELSE r2.ret[1]>>)

\* the pop, for the outcome r1 of the swapIndices before it
swapRemoveFull_pop(r1, index, key) ==
    IF r1.outcome # "ok" THEN r1
    ELSE swapRemoveFull_return(pop(r1.map, r1.indices), index, key)

swapRemoveFull_noSwap(mp, ind, key) ==
    LET full == getFull(mp, ind, key)
    IN  IF full.outcome # "ok" \/ full.ret = None THEN full
        ELSE swapRemoveFull_return(pop(mp, ind), full.ret[INDEX + 1], key)

swapRemoveFull(mp, ind, key) ==
    LET full == getFull(mp, ind, key)
    IN  IF full.outcome # "ok" \/ full.ret = None THEN full
        ELSE swapRemoveFull_pop(swapIndices(mp, ind, full.ret[INDEX + 1], size(mp) - 1),
                                full.ret[INDEX + 1], key)

\* full ? full[ENTRY_VALUE] : undefined, for the outcome r of swapRemoveFull
swapRemove_return(r) ==
    IF r.outcome # "ok" \/ r.ret = None THEN r
    ELSE IF r.ret[ENTRY_VALUE + 1] = Hole THEN Ok(r.map, r.indices, None)
    ELSE Ok(r.map, r.indices, <<r.ret[ENTRY_VALUE + 1]>>)

swapRemove(mp, ind, key) == swapRemove_return(swapRemoveFull(mp, ind, key))

\* full ? [full[ENTRY_KEY], full[ENTRY_VALUE]] : undefined
swapRemoveEntry_return(r) ==
    IF r.outcome # "ok" \/ r.ret = None THEN r
    ELSE Ok(r.map, r.indices, <<r.ret[ENTRY_KEY + 1], r.ret[ENTRY_VALUE + 1]>>)

swapRemoveEntry(mp, ind, key) == swapRemoveEntry_return(swapRemoveFull(mp, ind, key))

swapRemoveIndex(mp, ind, index) ==
    IF Len(ind) = 0 \/ index < 0 \/ index >= Len(ind) THEN Ok(mp, ind, None)
    ELSE swapRemove(mp, ind, ArrGet(ind, index))

\* ------------------------------------------------------- bulk restructuring
popFull(mp, ind) ==
    LET index == size(mp) - 1
        full == getFull(mp, ind, ArrGet(ind, index))
    IN  IF index > 0
        THEN IF full.outcome # "ok" \/ full.ret = None THEN Raise(mp, ind, "TypeError")
             ELSE Ok(MapDelete(mp, hash(full.ret[ENTRY_KEY + 1])),
                     SubSeq(ind, 1, Len(ind) - 1), full.ret)
        ELSE Ok(mp, ind, None)

\* the loop of truncate: pop() either removes one bucket or (empty table,
\* or a last slot whose key has no bucket) changes nothing, and then the
\* loop condition stays true for ever
RECURSIVE truncateLoop(_, _, _)
truncateLoop(mp, ind, new_len) ==
    IF ~(Len(ind) > new_len) THEN Ok(mp, ind, None)
    ELSE LET r == pop(mp, ind)
         IN  IF r.outcome # "ok" THEN Raise(r.map, r.indices, r.outcome)
             ELSE IF r.map = mp /\ r.indices = ind THEN Raise(mp, ind, "hang")
             ELSE truncateLoop(r.map, r.indices, new_len)

\* mutant: the loop stops one entry early
truncate_keepsOneMore(mp, ind, new_len) ==
    IF new_len >= Len(ind) THEN Ok(mp, ind, None) ELSE truncateLoop(mp, ind, new_len + 1)

truncate(mp, ind, new_len) ==
    IF new_len >= Len(ind) THEN Ok(mp, ind, None) ELSE truncateLoop(mp, ind, new_len)

\* iter().rev().for_each(...): the cursor i walks the array from the back;
\* entries() reads this.#map.get(this.#hash(k))![BUCKET_VALUE] for each key
RECURSIVE retainFrom(_, _, _, _)
retainFrom(mp, ind, i, keep) ==
    IF i < 0 THEN Ok(mp, ind, None)
    ELSE LET k == ArrGet(ind, i)
         IN  IF hashThrows(k) \/ ~MapHas(mp, hash(k)) THEN Raise(mp, ind, "TypeError")
             ELSE IF k \in keep THEN retainFrom(mp, ind, i - 1, keep)
             ELSE LET r == delete(mp, ind, k)
                  IN  retainFrom(r.map, r.indices, i - 1, keep)

retain(mp, ind, keep) == retainFrom(mp, ind, Len(ind) - 1, keep)

\* the keys the callback of retain is called with, in the order of the calls
RECURSIVE retainCalls(_, _, _, _)
retainCalls(mp, ind, i, keep) ==
    IF i < 0 THEN <<>>
    ELSE LET k == ArrGet(ind, i)
         IN  IF hashThrows(k) \/ ~MapHas(mp, hash(k)) THEN <<>>
             ELSE IF k \in keep THEN <<k>> \o retainCalls(mp, ind, i - 1, keep)
             ELSE <<k>> \o retainCalls(delete(mp, ind, k).map, delete(mp, ind, k).indices,
                                       i - 1, keep)

\* new Map(entries)
RECURSIVE NewMap(_)
NewMap(entries) ==
    IF entries = <<>> THEN <<>>
    ELSE LET e == entries[Len(entries)]
         IN  MapSet(NewMap(SubSeq(entries, 1, Len(entries) - 1)), e.k, e.idx, e.val)

\* the callback of Array.from in toSorted is called with (element, index)
\* and names them (i, key): it hashes the index, reads the bucket under
\* that hash and stores the element as the bucket's index.  The custom
\* hasher raises on a number; a hash that is not in the table makes the
\* read of [1] raise.
toSorted_throws(mp, sorted) ==
    \E j \in 0..(Len(sorted) - 1) : hasher = "toPrimitive" \/ ~MapHas(mp, valueOf(j))

toSorted_entries(mp, sorted) ==
    [j \in 1..Len(sorted) |->
        [k |-> valueOf(j - 1), idx |-> sorted[j], val |-> MapGet(mp, valueOf(j - 1)).val]]

toSorted_return(r, mp, sorted) ==
    IF toSorted_throws(mp, sorted) THEN Raise(r.map, r.indices, "TypeError")
    ELSE [r EXCEPT !.other = [map |-> NewMap(toSorted_entries(mp, sorted)),
                              indices |-> sorted]]

toSorted(mp, ind, cmp) == toSorted_return(Ok(mp, ind, None), mp, ArrSort(cmp, ind))

\* IndexMap.from(iterable, hasher): the table is collected from the pairs
\* [hasher(k), [i, v]] of the enumerated iterable, the array from its keys
\* (every one of them), and the new IndexMap gets no hasher: it has valueOf
IndexMap_from(iterable, h) ==
    [map |-> NewMap([j \in 1..Len(iterable) |->
                        [k |-> hashWith(h, iterable[j][1]), idx |-> j - 1,
                         val |-> iterable[j][2]]]),
     indices |-> [j \in 1..Len(iterable) |-> iterable[j][1]]]

splitOff(mp, ind, at) ==
    IF at > size(mp) \/ at < 0 THEN Raise(mp, ind, "RangeError")
    ELSE LET sliced == SubSeq(ind, at + 1, Len(ind))
             bad == \E j \in 1..Len(sliced) :
                        hashThrows(sliced[j]) \/ ~MapHas(mp, hash(sliced[j]))
             entries == [j \in 1..Len(sliced) |->
                           [k |-> hash(sliced[j]), idx |-> j - 1,
                            val |-> MapGet(mp, hash(sliced[j])).val]]
             r == truncate(mp, ind, at)
         IN  IF bad THEN Raise(mp, ind, "TypeError")
             ELSE IF r.outcome # "ok" THEN r
             ELSE [r EXCEPT !.other = [map |-> NewMap(entries), indices |-> sliced]]

\* ------------------------------------------------------------------ Drain
\* new Drain(start, end, map): the cursor starts one before start; taken is
\* the length of #taken
Drain(start, end) == [start |-> start - 1, end |-> end, taken |-> 0]

\* what a pull gives: the map after it, the item (none when done), the
\* cursor after it
Pulled(mp, ind, ret, err, d, done) ==
    [map |-> mp, indices |-> ind, ret |-> ret, outcome |-> err, drain |-> d, done |-> done]

\* the rest of Drain.next once the entry e of the effective index is read:
\* const [k, v] = e raises when e is undefined; then #taken.push(v) and
\* shift_remove(k)
Drain_take(mp, ind, d, e) ==
    IF e.outcome # "ok" \/ e.ret = None THEN Pulled(mp, ind, None, "TypeError", d, FALSE)
    ELSE Pulled(delete(mp, ind, e.ret[1]).map, delete(mp, ind, e.ret[1]).indices, e.ret,
                delete(mp, ind, e.ret[1]).outcome, [d EXCEPT !.taken = @ + 1], FALSE)

\* Drain.next; get_index_entry and shift_remove are the methods that the
\* later IndexMap calls getIndexEntry and delete
Drain_next(mp, ind, d) ==
    IF d.start + 1 >= d.end
    THEN Pulled(mp, ind, None, "ok", [d EXCEPT !.start = @ + 1], TRUE)
    ELSE Drain_take(mp, ind, [d EXCEPT !.start = @ + 1],
                    getIndexEntry(mp, ind, d.start + 1 - d.taken))

\* the drain pulled until it is done (count(), collect(), for ... of); the
\* items come back as the return value
RECURSIVE Drain_collect(_, _, _, _)
RECURSIVE Drain_pulled(_, _)
Drain_pulled(n, acc) ==
    IF n.outcome # "ok" THEN Raise(n.map, n.indices, n.outcome)
    ELSE IF n.done THEN Ok(n.map, n.indices, acc)
    ELSE Drain_collect(n.map, n.indices, n.drain, Append(acc, n.ret))

Drain_collect(mp, ind, d, acc) == Drain_pulled(Drain_next(mp, ind, d), acc)

\* map.drain(start, end) pulled to its end
drain(mp, ind, start, end) == Drain_collect(mp, ind, Drain(start, end), <<>>)

\* ----------------------------------------------------------------- Splice
\* new Splice(map, indices, start, end, replace_with): no argument is
\* tested; the cursor starts one before start, front at -1 and back at the
\* size of the table.  replace holds the pairs not pulled yet.
Splice(mp, start, end, replace_with) ==
    [start |-> start - 1, end |-> end, replace |-> replace_with,
     front |-> -1, back |-> size(mp)]

\* what a pull gives: the map after it, the item (none when done), the
\* cursor after it
Spliced(mp, ind, ret, err, s, done) ==
    [map |-> mp, indices |-> ind, ret |-> ret, outcome |-> err, splice |-> s, done |-> done]

\* Splice.#splice(i, k, v): the table is read with the key of the array as
\* it is (not hashed); the old bucket is deleted when old_key === k
Splice_splice(mp, ind, s, i, k, v) ==
    IF ~MapHas(mp, ArrGet(ind, i)) THEN Spliced(mp, ind, None, "TypeError", s, FALSE)
    ELSE Spliced(MapSet(IF ArrGet(ind, i) = k THEN MapDelete(mp, ArrGet(ind, i)) ELSE mp,
                        k, i, v),
                 ArrSet(ind, i, k),
                 <<ArrGet(ind, i), MapGet(mp, ArrGet(ind, i)).val>>, "ok", s, FALSE)

\* the part next and next_back share: #start++, one pair pulled from the
\* replacements (hashed by the map callback of IndexMap.splice), done when
\* the index is above #end or no pair is left
Splice_advance(mp, ind, s) ==
    IF s.start + 1 > s.end \/ s.replace = <<>>
    THEN Spliced(mp, ind, None, "ok",
                 [s EXCEPT !.start = @ + 1,
                           !.replace = IF @ = <<>> THEN @ ELSE Tail(@)], TRUE)
    ELSE Splice_splice(mp, ind,
                       [s EXCEPT !.start = @ + 1, !.replace = Tail(@)],
                       s.start + 1, hash(s.replace[1][1]), s.replace[1][2])

Splice_next(mp, ind, s) ==
    IF s.front + 1 >= s.back
    THEN Spliced(mp, ind, None, "ok", [s EXCEPT !.front = @ + 1], TRUE)
    ELSE Splice_advance(mp, ind, [s EXCEPT !.front = @ + 1])

Splice_next_back(mp, ind, s) ==
    IF s.front >= s.back - 1
    THEN Spliced(mp, ind, None, "ok", [s EXCEPT !.back = @ - 1], TRUE)
    ELSE Splice_advance(mp, ind, [s EXCEPT !.back = @ - 1])

\* IndexMap.splice(from, to, replace_with): the call returns the new Splice
\* whatever from and to are
Splice_new(mp, ind, from, to, replace_with) ==
    Spliced(mp, ind, None, "ok", Splice(mp, from, to, replace_with), FALSE)

\* the splice pulled from the front until it is done (for ... of); the
\* items come back as the return value
RECURSIVE Splice_collect(_, _, _, _)
RECURSIVE Splice_pulled(_, _)
Splice_pulled(n, acc) ==
    IF n.outcome # "ok" THEN Raise(n.map, n.indices, n.outcome)
    ELSE IF n.done THEN Ok(n.map, n.indices, acc)
    ELSE Splice_collect(n.map, n.indices, n.splice, Append(acc, n.ret))

Splice_collect(mp, ind, s, acc) == Splice_pulled(Splice_next(mp, ind, s), acc)

\* map.splice(from, to, replace_with) pulled to its end
splice(mp, ind, from, to, replace_with) ==
    Splice_collect(mp, ind, Splice_new(mp, ind, from, to, replace_with).splice, <<>>)

\* --------------------------------------------------------------- IndexSet
\* An IndexSet is an IndexMap whose values are its keys; the receiver of a
\* call is (mp, ind) and another set is a record of a table and an array.
IndexSet(mp, ind) == [map |-> mp, indices |-> ind]

\* set.add(x) for the elements xs in turn, on the set of the result r
RECURSIVE addAll(_, _)
addAll(r, xs) ==
    IF xs = <<>> \/ r.outcome # "ok" THEN r
    ELSE IF hashThrows(xs[1]) THEN Raise(r.map, r.indices, "TypeError")
    ELSE addAll(set(r.map, r.indices, xs[1], xs[1]), Tail(xs))

\* new IndexSet() with the hasher of the model, then add for each of xs
IndexSet_of(xs) ==
    IndexSet(addAll(Ok(<<>>, <<>>, None), xs).map, addAll(Ok(<<>>, <<>>, None), xs).indices)

\* the sets another set is drawn from: every sequence of distinct keys
IndexSets ==
    UNION {{IndexSet_of(xs) : xs \in {q \in [1..n -> Keys] :
                                        \A a, b \in 1..n : a # b => q[a] # q[b]}} :
           n \in 0..MaxKey}

\* new IndexSet(iterable): the table is new Map of [hasher(key), [i, key]]
\* for the enumerated elements, hasher being valueOf, and the array is
\* Array.from(iterable); the IndexMap gets no hasher and keeps valueOf
IndexSet_new(xs) ==
    IndexSet(NewMap([j \in 1..Len(xs) |-> [k |-> valueOf(xs[j]), idx |-> j - 1, val |-> xs[j]]]),
             xs)

\* set.extend(iterable): add for each element
extend(mp, ind, xs) == addAll(Ok(mp, ind, None), xs)

\* the end of append: the new set comes back, the receiver is as it was
append_return(mp, ind, r) ==
    IF r.outcome # "ok" THEN Raise(mp, ind, r.outcome)
    ELSE [Ok(mp, ind, None) EXCEPT !.other = IndexSet(r.map, r.indices)]

\* mutant: the elements of other are not added
append_selfOnly(mp, ind, other) ==
    append_return(mp, ind, addAll(Ok(<<>>, [j \in 1..size(mp) |-> Hole], None), ind))

\* IndexSet.append(other): withCapacityAndHasher(this.size, hasher) is an
\* empty table over an array of this.size holes
append(mp, ind, other) ==
    append_return(mp, ind,
        addAll(addAll(Ok(<<>>, [j \in 1..size(mp) |-> Hole], None), ind), other.indices))

\* for (const x of self) if (!other.has(x)) return false; return true
RECURSIVE isSubsetFrom(_, _, _, _)
isSubsetFrom(mp, ind, i, other) ==
    IF i >= Len(ind) THEN Ok(mp, ind, <<TRUE>>)
    ELSE IF hashThrows(ArrGet(ind, i)) THEN Raise(mp, ind, "TypeError")
    ELSE IF ~has(other.map, ArrGet(ind, i)) THEN Ok(mp, ind, <<FALSE>>)
    ELSE isSubsetFrom(mp, ind, i + 1, other)

\* mutant: true when some element of the receiver is in other
isSubset_some(mp, ind, other) ==
    Ok(mp, ind, <<\E i \in 1..Len(ind) : has(other.map, ind[i])>>)

isSubset(mp, ind, other) == isSubsetFrom(mp, ind, 0, other)

\* other.isSubset(this): the answer of the call on other, the receiver kept
isSuperset(mp, ind, other) ==
    [isSubset(other.map, other.indices, IndexSet(mp, ind)) EXCEPT !.map = mp, !.indices = ind]

\* null: a value that is no element of a set
Null == 0 - 1

\* hasIndex: return this.#map.getIndex(index) === null, r being the
\* outcome of getIndex (undefined out of range, else the element)
hasIndex_return(r) ==
    IF r.outcome # "ok" THEN r ELSE Ok(r.map, r.indices, <<r.ret = <<Null>>>>)

hasIndex(mp, ind, index) == hasIndex_return(getIndex(mp, ind, index))

\* iter(array): a cursor at each end of the array
ArrayIter(ind) == [front |-> 0, back |-> Len(ind)]

\* what a pull of a set iterator gives: the item (none when done or
\* raised), the cursors after it
SetPulled(ret, err, it, done) == [ret |-> ret, outcome |-> err, iter |-> it, done |-> done]

\* Intersection.next and Difference.next: the first element pulled from
\* the keys of a is tested with this.#other.contains(n.value); IndexSet
\* declares has and no method contains, so the call raises a TypeError
Intersection_next(ind, it, other) ==
    IF it.front >= it.back THEN SetPulled(None, "ok", it, TRUE)
    ELSE SetPulled(None, "TypeError", [it EXCEPT !.front = @ + 1], FALSE)

Intersection_next_back(ind, it, other) ==
    IF it.front >= it.back THEN SetPulled(None, "ok", it, TRUE)
    ELSE SetPulled(None, "TypeError", [it EXCEPT !.back = @ - 1], FALSE)

Difference_next(ind, it, other) ==
    IF it.front >= it.back THEN SetPulled(None, "ok", it, TRUE)
    ELSE SetPulled(None, "TypeError", [it EXCEPT !.front = @ + 1], FALSE)

Difference_next_back(ind, it, other) ==
    IF it.front >= it.back THEN SetPulled(None, "ok", it, TRUE)
    ELSE SetPulled(None, "TypeError", [it EXCEPT !.back = @ - 1], FALSE)

\* new Union(a, b): a.iter().chain(b.difference(a))
Union(ind, other) == [a |-> ArrayIter(ind), b |-> ArrayIter(other.indices)]

\* Union.next: the keys of a, then the pulls of b.difference(a)
Union_rest(u, p) == [p EXCEPT !.iter = [u EXCEPT !.b = p.iter]]

Union_next(mp, ind, other, u) ==
    IF u.a.front < u.a.back
    THEN SetPulled(<<ArrGet(ind, u.a.front)>>, "ok", [u EXCEPT !.a.front = @ + 1], FALSE)
    ELSE Union_rest(u, Difference_next(other.indices, u.b, IndexSet(mp, ind)))

\* an iterator pulled from the front until it is done (collect()); the
\* items come back as the return value
RECURSIVE Union_collect(_, _, _, _, _)
RECURSIVE Union_pulled(_, _, _, _, _)
Union_pulled(mp, ind, other, p, acc) ==
    IF p.outcome # "ok" THEN Raise(mp, ind, p.outcome)
    ELSE IF p.done THEN Ok(mp, ind, acc)
    ELSE Union_collect(mp, ind, other, p.iter, acc \o p.ret)

Union_collect(mp, ind, other, u, acc) ==
    Union_pulled(mp, ind, other, Union_next(mp, ind, other, u), acc)

\* this.union(other).collect()
union(mp, ind, other) == Union_collect(mp, ind, other, Union(ind, other), <<>>)

\* an Intersection or Difference pulled until it is done, from the front
\* or from the back: a pull is the end or raises
SetIter_collect(mp, ind, p) ==
    IF p.outcome # "ok" THEN Raise(mp, ind, p.outcome) ELSE Ok(mp, ind, <<>>)

\* this.intersection(other).collect() and .rev().collect()
intersection(mp, ind, other, back) ==
    SetIter_collect(mp, ind,
        IF back THEN Intersection_next_back(ind, ArrayIter(ind), other)
        ELSE Intersection_next(ind, ArrayIter(ind), other))

\* this.difference(other).collect() and .rev().collect()
difference(mp, ind, other, back) ==
    SetIter_collect(mp, ind,
        IF back THEN Difference_next_back(ind, ArrayIter(ind), other)
        ELSE Difference_next(ind, ArrayIter(ind), other))

\* Difference.fold: this.#iter.fold(initial, fold), and #iter is a.iter():
\* the fold of the array iterator visits every element the cursors still
\* enclose, in order, and other is not consulted
Difference_fold(ind, it) == SubSeq(ind, it.front + 1, it.back)

\* this.difference(other).fold(initial, f): the elements f is called with
differenceFold(mp, ind, other) == Ok(mp, ind, Difference_fold(ind, ArrayIter(ind)))

\* Union.fold: this.#iter.fold(initial, fold), and #iter is
\* a.iter().chain(b.difference(a)).  The chain is the iterator library's:
\* its fold either folds the two parts in turn (delegates) or pulls next()
\* until done.
Union_fold(mp, ind, other, u, delegates) ==
    IF delegates
    THEN Ok(mp, ind, Difference_fold(ind, u.a) \o Difference_fold(other.indices, u.b))
    ELSE Union_collect(mp, ind, other, u, <<>>)

\* this.union(other).fold(initial, f): the elements f is called with
unionFold(mp, ind, other, delegates) ==
    Union_fold(mp, ind, other, Union(ind, other), delegates)

\* ------------------------------------------------- two maps on one heap
\* Buckets, Map objects and arrays are objects: heap holds the buckets,
\* maps the Map objects (key and bucket reference, in insertion order),
\* arrs the arrays, and objs gives the Map and the array of each IndexMap.
\* made tells that a second IndexMap m2 exists beside m; steps counts the
\* calls made since.
NoCopy == [made |-> FALSE, heap |-> <<>>, maps |-> <<>>, arrs |-> <<>>,
           objs |-> <<>>, steps |-> 0]

MapNames == {"m", "m2"}

Other(x) == IF x = "m" THEN "m2" ELSE "m"

\* the fields #map and #indices of IndexMap x as its methods read them
ViewMap(c, x) ==
    [p \in 1..Len(c.maps[c.objs[x].map]) |->
        [k |-> c.maps[c.objs[x].map][p].k,
         idx |-> c.heap[c.maps[c.objs[x].map][p].ref].idx,
         val |-> c.heap[c.maps[c.objs[x].map][p].ref].val]]

ViewArr(c, x) == c.arrs[c.objs[x].arr]

\* one IndexMap m alone on the heap
Load(mp, ind) ==
    [made |-> FALSE,
     heap |-> [p \in 1..Len(mp) |-> [idx |-> mp[p].idx, val |-> mp[p].val]],
     maps |-> <<[p \in 1..Len(mp) |-> [k |-> mp[p].k, ref |-> p]]>>,
     arrs |-> <<ind>>,
     objs |-> [m |-> [map |-> 1, arr |-> 1]],
     steps |-> 0]

\* buckets no Map refers to any more are dropped, the others renumbered in
\* the order of the Maps
Canon(c) ==
    LET refs1 == [p \in 1..Len(c.maps[1]) |-> c.maps[1][p].ref]
        refs2 == IF Len(c.maps) = 1 THEN <<>>
                 ELSE [p \in 1..Len(c.maps[2]) |-> c.maps[2][p].ref]
        all == refs1 \o SelectSeq(refs2, LAMBDA x : \A p \in 1..Len(refs1) : refs1[p] # x)
        Pos(x) == CHOOSE i \in 1..Len(all) : all[i] = x
    IN  [c EXCEPT !.heap = [i \in 1..Len(all) |-> c.heap[all[i]]],
                  !.maps = [j \in 1..Len(c.maps) |->
                              [p \in 1..Len(c.maps[j]) |->
                                  [k |-> c.maps[j][p].k, ref |-> Pos(c.maps[j][p].ref)]]]]

\* The effect r of a method of IndexMap x on the heap.  Every method
\* changes the array in place, changes the bucket of a key that stays in
\* place (bucket[BUCKET_VALUE] = value, tuple[INDEX] = i, bucket[INDEX] -= 1)
\* and creates a bucket only for a new key (this.#map.set(key, [idx, value])).
Store(c, x, r) ==
    LET mid == c.objs[x].map
        t == c.maps[mid]
        IsOld(k) == \E q \in 1..Len(t) : t[q].k = k
        OldRef(k) == t[CHOOSE q \in 1..Len(t) : t[q].k = k].ref
        Fresh(p) == Cardinality({q \in 1..p : ~IsOld(r.map[q].k)})
        RefAt(p) == IF IsOld(r.map[p].k) THEN OldRef(r.map[p].k)
                    ELSE Len(c.heap) + Fresh(p)
        Holder(ref) == CHOOSE p \in 1..Len(r.map) : RefAt(p) = ref
    IN  Canon([c EXCEPT
            !.heap = [ref \in 1..(Len(c.heap) + Fresh(Len(r.map))) |->
                        IF \E p \in 1..Len(r.map) : RefAt(p) = ref
                        THEN [idx |-> r.map[Holder(ref)].idx, val |-> r.map[Holder(ref)].val]
                        ELSE c.heap[ref]],
            !.maps[mid] = [p \in 1..Len(r.map) |-> [k |-> r.map[p].k, ref |-> RefAt(p)]],
            !.arrs[c.objs[x].arr] = r.indices])

\* a new IndexMap m2 with a new Map, new buckets and a new array
NewIndexMap(c, x, mp, ind) ==
    [c EXCEPT
        !.heap = c.heap \o [p \in 1..Len(mp) |-> [idx |-> mp[p].idx, val |-> mp[p].val]],
        !.maps = Append(c.maps, [p \in 1..Len(mp) |-> [k |-> mp[p].k, ref |-> Len(c.heap) + p]]),
        !.arrs = Append(c.arrs, ind),
        !.objs = [m |-> c.objs[x], m2 |-> [map |-> Len(c.maps) + 1, arr |-> Len(c.arrs) + 1]],
        !.made = TRUE]

\* mutant: new Map(this.#map), the buckets of m are put into the new Map
clone_sharesBuckets(c, x) ==
    [c EXCEPT
        !.maps = Append(c.maps, c.maps[c.objs[x].map]),
        !.arrs = Append(c.arrs, ViewArr(c, x)),
        !.objs = [m |-> c.objs[x], m2 |-> [map |-> Len(c.maps) + 1, arr |-> Len(c.arrs) + 1]],
        !.made = TRUE]

\* clone(cloner = valueOf): entries.push([key, [index, cloner(value)]]) for
\* every entry of the Map, then new IndexMap(new Map(entries), [...indices])
clone(c, x) ==
    NewIndexMap(c, x,
                [p \in 1..Len(ViewMap(c, x)) |->
                    [ViewMap(c, x)[p] EXCEPT !.val = valueOf(@)]],
                ViewArr(c, x))

\* splitOff(at) on the heap, r being what it does to the receiver and what
\* it builds: the receiver x is truncated in place, the entries and the
\* slice go into a new IndexMap
splitOffOnHeap(c, x, r) == NewIndexMap(Store(c, x, r), x, r.other.map, r.other.indices)

\* ------------------------------------------------------------------ actions
\* The first size entries of the array are distinct keys whose buckets store
\* their positions, and nothing but holes follows them.  Calls on a map that
\* has left this shape are explored to the depth MaxUnsound.
Sound(mp, ind) ==
    /\ Len(ind) >= size(mp)
    /\ \A i \in 1..Len(ind) :
         IF i <= size(mp)
         THEN ind[i] # Hole /\ MapHas(mp, hash(ind[i])) /\ MapGet(mp, hash(ind[i])).idx = i - 1
         ELSE ind[i] = Hole

Init ==
    /\ map = <<>>
    /\ indices = <<>>
    /\ hasher \in Hashers
    /\ outcome = "ok"
    /\ unsound = 0
    /\ log = <<>>
    /\ copy = NoCopy

\* IndexMap.withCapacity(capacity) / withCapacityAndHasher(capacity, hasher)
InitCap ==
    /\ map = <<>>
    /\ \E capacity \in 0..MaxCap : indices = [j \in 1..capacity |-> Hole]
    /\ hasher \in Hashers
    /\ outcome = "ok"
    /\ unsound = 0
    /\ log = <<>>
    /\ copy = NoCopy

\* A call is made on a map whose calls so far all returned: a call that
\* raised or never returned ends the run.
Returned(r) ==
    /\ outcome = "ok"
    /\ Sound(map, indices) \/ unsound < MaxUnsound
    /\ map' = r.map
    /\ indices' = r.indices
    /\ outcome' = r.outcome
    /\ unsound' = IF Sound(map, indices) THEN unsound ELSE unsound + 1
    /\ UNCHANGED <<hasher, log, copy>>

Call_set == \E key \in Keys, value \in Values :
    Returned(set(map, indices, key, value))

Call_setFull == \E key \in Keys, value \in Values :
    Returned(setFull(map, indices, key, value))

Call_delete == \E key \in Keys :
    Returned(delete(map, indices, key))

Call_deleteEntry == \E key \in Keys :
    Returned(deleteEntry(map, indices, key))

Call_deleteFull == \E key \in Keys :
    Returned(deleteFull(map, indices, key))

Call_deleteIndex == \E index \in -1..MaxKey :
    Returned(deleteIndex(map, indices, index))

Call_pop == Returned(pop(map, indices))

Call_shift == Returned(shift(map, indices))

Call_shiftEntry == Returned(shiftEntry(map, indices))

Call_clear == Returned(clear(map, indices))

Indexes == -1..MaxKey

Call_shiftInsert == \E index \in Indexes, key \in Keys, value \in Values :
    Returned(shiftInsert(map, indices, index, key, value))

Call_shiftInsertEntry == \E index \in Indexes, key \in Keys, value \in Values :
    Returned(shiftInsertEntry(map, indices, index, key, value))

Call_swapIndices == \E from \in Indexes, to \in Indexes :
    Returned(swapIndices(map, indices, from, to))

Call_moveIndex == \E from \in Indexes, to \in Indexes :
    Returned(moveIndex(map, indices, from, to))

Call_reverse == Returned(reverse(map, indices))

Call_sort == \E cmp \in Cmps :
    Returned(sort(map, indices, cmp))

Call_toSorted == \E cmp \in Cmps :
    Returned(toSorted(map, indices, cmp))

Call_swapRemove == \E key \in Keys :
    Returned(swapRemove(map, indices, key))

Call_swapRemoveEntry == \E key \in Keys :
    Returned(swapRemoveEntry(map, indices, key))

Call_swapRemoveFull == \E key \in Keys :
    Returned(swapRemoveFull(map, indices, key))

Call_swapRemoveIndex == \E index \in Indexes :
    Returned(swapRemoveIndex(map, indices, index))

Call_isSorted == \E laterFirst \in ArgOrders(indices) :
    Returned(isSorted(map, indices, laterFirst))

Call_popFull == Returned(popFull(map, indices))

Call_truncate == \E new_len \in Indexes :
    Returned(truncate(map, indices, new_len))

Call_retain == \E keep \in SUBSET Keys :
    Returned(retain(map, indices, keep))

Call_splitOff == \E at \in Indexes :
    Returned(splitOff(map, indices, at))

Call_drain == \E start \in Indexes, end \in Indexes :
    Returned(drain(map, indices, start, end))

\* the replacement pairs of a splice: up to MaxReplace pairs with pairwise
\* distinct keys
ReplaceWith(n) ==
    {r \in [1..n -> Keys \X Values] : \A a, b \in 1..n : a # b => r[a][1] # r[b][1]}

\* the calls of splice explored: the pairs of one call carry one value
Call_splice == \E from \in Indexes, to \in Indexes, value \in Values :
    \E n \in 0..MaxReplace : \E replace_with \in ReplaceWith(n) :
        /\ \A j \in 1..n : replace_with[j][2] = value
        /\ Returned(splice(map, indices, from, to, replace_with))

Next ==
    \/ Call_set
    \/ Call_setFull
    \/ Call_delete
    \/ Call_deleteEntry
    \/ Call_deleteFull
    \/ Call_deleteIndex
    \/ Call_pop
    \/ Call_shift
    \/ Call_shiftEntry
    \/ Call_clear
    \/ Call_shiftInsert
    \/ Call_shiftInsertEntry
    \/ Call_swapIndices
    \/ Call_moveIndex
    \/ Call_reverse
    \/ Call_sort
    \/ Call_toSorted
    \/ Call_swapRemove
    \/ Call_swapRemoveEntry
    \/ Call_swapRemoveFull
    \/ Call_swapRemoveIndex
    \/ Call_popFull
    \/ Call_isSorted
    \/ Call_truncate
    \/ Call_retain
    \/ Call_splitOff
    \/ Call_drain
    \/ Call_splice

Spec == Init /\ [][Next]_vars

SpecCap == InitCap /\ [][Next]_vars

\* Insertion only: set on a key whose hash is not in the table yet; log
\* records the keys in the order of the calls.
Insert_set == \E key \in Keys, value \in Values :
    /\ ~has(map, key)
    /\ map' = set(map, indices, key, value).map
    /\ indices' = set(map, indices, key, value).indices
    /\ outcome' = set(map, indices, key, value).outcome
    /\ log' = Append(log, key)
    /\ UNCHANGED <<hasher, unsound, copy>>

Insert_setFull == \E key \in Keys, value \in Values :
    /\ ~has(map, key)
    /\ map' = setFull(map, indices, key, value).map
    /\ indices' = setFull(map, indices, key, value).indices
    /\ outcome' = setFull(map, indices, key, value).outcome
    /\ log' = Append(log, key)
    /\ UNCHANGED <<hasher, unsound, copy>>

NextInsert ==
    \/ Insert_set
    \/ Insert_setFull

SpecInsert == Init /\ [][NextInsert]_vars

\* m2 = m.clone()
Do_clone ==
    /\ ~copy.made /\ outcome = "ok" /\ Sound(map, indices)
    /\ copy' = clone(Load(map, indices), "m")
    /\ UNCHANGED <<map, indices, hasher, outcome, unsound, log>>

\* m2 = m.splitOff(at)
Do_splitOff == \E at \in Indexes :
    /\ ~copy.made /\ outcome = "ok" /\ Sound(map, indices)
    /\ splitOff(map, indices, at).outcome = "ok"
    /\ copy' = splitOffOnHeap(Load(map, indices), "m", splitOff(map, indices, at))
    /\ map' = ViewMap(copy', "m")
    /\ indices' = ViewArr(copy', "m")
    /\ UNCHANGED <<hasher, outcome, unsound, log>>

\* a call on m or on m2 with the effect r; map and indices stay the fields
\* of m
Mutated(x, r) ==
    /\ copy.steps < MaxSteps /\ outcome = "ok"
    /\ copy' = [Store(copy, x, r) EXCEPT !.steps = @ + 1]
    /\ map' = ViewMap(copy', "m")
    /\ indices' = ViewArr(copy', "m")
    /\ outcome' = r.outcome
    /\ UNCHANGED <<hasher, unsound, log>>

On_set == \E x \in MapNames, key \in Keys, value \in Values :
    copy.made /\ Mutated(x, set(ViewMap(copy, x), ViewArr(copy, x), key, value))

On_delete == \E x \in MapNames, key \in Keys :
    copy.made /\ Mutated(x, delete(ViewMap(copy, x), ViewArr(copy, x), key))

On_swapIndices == \E x \in MapNames, from \in Indexes, to \in Indexes :
    copy.made /\ Mutated(x, swapIndices(ViewMap(copy, x), ViewArr(copy, x), from, to))

On_reverse == \E x \in MapNames :
    copy.made /\ Mutated(x, reverse(ViewMap(copy, x), ViewArr(copy, x)))

On_shiftInsert == \E x \in MapNames, index \in Indexes, key \in Keys, value \in Values :
    copy.made /\ Mutated(x, shiftInsert(ViewMap(copy, x), ViewArr(copy, x), index, key, value))

\* the map is built by the calls of Next before it is copied
Build == ~copy.made /\ Next

NextCopies ==
    \/ Build
    \/ Do_clone
    \/ Do_splitOff
    \/ On_set
    \/ On_delete
    \/ On_swapIndices
    \/ On_reverse
    \/ On_shiftInsert

SpecCopies == Init /\ [][NextCopies]_vars

\* An IndexSet: the calls of IndexSet on its map, every value the key
Set_add == \E x \in Keys :
    Returned(set(map, indices, x, x))

Set_delete == \E x \in Keys :
    Returned(delete(map, indices, x))

Set_shiftInsert == \E index \in Indexes, x \in Keys :
    Returned(shiftInsert(map, indices, index, x, x))

Set_swapRemove == \E x \in Keys :
    Returned(swapRemove(map, indices, x))

Set_reverse ==
    Returned(reverse(map, indices))

Set_append == \E other \in IndexSets :
    Returned(append(map, indices, other))

Set_isSubset == \E other \in IndexSets :
    Returned(isSubset(map, indices, other))

Set_isSuperset == \E other \in IndexSets :
    Returned(isSuperset(map, indices, other))

Set_union == \E other \in IndexSets :
    Returned(union(map, indices, other))

Set_intersection == \E other \in IndexSets, back \in BOOLEAN :
    Returned(intersection(map, indices, other, back))

Set_difference == \E other \in IndexSets, back \in BOOLEAN :
    Returned(difference(map, indices, other, back))

Set_differenceFold == \E other \in IndexSets :
    Returned(differenceFold(map, indices, other))

Set_unionFold == \E other \in IndexSets, delegates \in BOOLEAN :
    Returned(unionFold(map, indices, other, delegates))

Set_hasIndex == \E index \in Indexes :
    Returned(hasIndex(map, indices, index))

NextSets ==
    \/ Set_add
    \/ Set_delete
    \/ Set_shiftInsert
    \/ Set_swapRemove
    \/ Set_reverse
    \/ Set_append
    \/ Set_isSubset
    \/ Set_isSuperset
    \/ Set_union
    \/ Set_intersection
    \/ Set_difference
    \/ Set_differenceFold
    \/ Set_unionFold
    \/ Set_hasIndex

SpecSets == Init /\ [][NextSets]_vars

\* m = IndexMap.from(iterable, hasher); log keeps the arguments
Pairs == UNION {[1..n -> Keys \X Values] : n \in 0..MaxPairs}

Call_from == \E iterable \in Pairs, h \in Hashers :
    /\ map' = IndexMap_from(iterable, h).map
    /\ indices' = IndexMap_from(iterable, h).indices
    /\ hasher' = "valueOf"
    /\ outcome' = "ok"
    /\ log' = <<iterable, h>>
    /\ UNCHANGED <<unsound, copy>>

NextFrom == Call_from

SpecFrom == Init /\ [][NextFrom]_vars

\* the iterables a set is built from or extended with: up to MaxKey
\* elements, repeated ones included
Iterables == UNION {[1..n -> Keys] : n \in 0..MaxKey}

\* new IndexSet(iterable)
InitBuilt ==
    /\ \E xs \in Iterables :
         /\ map = IndexSet_new(xs).map
         /\ indices = IndexSet_new(xs).indices
    /\ hasher = "valueOf"
    /\ outcome = "ok"
    /\ unsound = 0
    /\ log = <<>>
    /\ copy = NoCopy

Set_extend == \E xs \in Iterables :
    Returned(extend(map, indices, xs))

NextBuilt ==
    \/ Set_add
    \/ Set_delete
    \/ Set_shiftInsert
    \/ Set_extend

SpecBuilt == InitBuilt /\ [][NextBuilt]_vars

\* The calls that append and that remove by shifting, on a map made by the
\* constructor; log records the last call and its argument.
Fragment(r, op, arg) ==
    /\ outcome = "ok"
    /\ Sound(map, indices) \/ unsound < MaxUnsound
    /\ map' = r.map
    /\ indices' = r.indices
    /\ outcome' = r.outcome
    /\ unsound' = IF Sound(map, indices) THEN unsound ELSE unsound + 1
    /\ log' = <<op, arg>>
    /\ UNCHANGED <<hasher, copy>>

Frag_set == \E key \in Keys, value \in Values :
    Fragment(set(map, indices, key, value), "set", key)

Frag_setFull == \E key \in Keys, value \in Values :
    Fragment(setFull(map, indices, key, value), "setFull", key)

Frag_delete == \E key \in Keys :
    Fragment(delete(map, indices, key), "delete", key)

Frag_deleteEntry == \E key \in Keys :
    Fragment(deleteEntry(map, indices, key), "deleteEntry", key)

Frag_deleteFull == \E key \in Keys :
    Fragment(deleteFull(map, indices, key), "deleteFull", key)

Frag_deleteIndex == \E index \in 0..(size(map) - 1) :
    Fragment(deleteIndex(map, indices, index), "deleteIndex", index)

Frag_pop == Fragment(pop(map, indices), "pop", 0)

Frag_shift == Fragment(shift(map, indices), "shift", 0)

Frag_truncate == \E new_len \in 0..MaxKey :
    Fragment(truncate(map, indices, new_len), "truncate", new_len)

Frag_clear == Fragment(clear(map, indices), "clear", 0)

NextFragment ==
    \/ Frag_set
    \/ Frag_setFull
    \/ Frag_delete
    \/ Frag_deleteEntry
    \/ Frag_deleteFull
    \/ Frag_deleteIndex
    \/ Frag_pop
    \/ Frag_shift
    \/ Frag_truncate
    \/ Frag_clear

SpecFragment == Init /\ [][NextFragment]_vars

\* ================================================================== claims
\* keys(): the array as iterated
keys(ind) == ind

Present == {k \in Keys : has(map, k)}

\* position of the first slot of ind holding a key with the hash of k, or -1
PosOf(ind, k) ==
    IF \E i \in 1..Len(ind) : ind[i] # Hole /\ hash(ind[i]) = hash(k)
    THEN (CHOOSE i \in 1..Len(ind) :
            /\ ind[i] # Hole /\ hash(ind[i]) = hash(k)
            /\ \A j \in 1..(i - 1) : ind[j] = Hole \/ hash(ind[j]) # hash(k)) - 1
    ELSE -1

I1(mp, ind) ==
    \A i \in 1..Len(ind) :
        /\ ind[i] # Hole
        /\ MapHas(mp, hash(ind[i]))
        /\ MapGet(mp, hash(ind[i])).idx = i - 1

I2(mp, ind) ==
    /\ Len(ind) = size(mp)
    /\ \A i, j \in 1..Len(ind) : i # j => hash(ind[i]) # hash(ind[j])
    /\ {hash(ind[i]) : i \in 1..Len(ind)} = {mp[p].k : p \in 1..Len(mp)}

I3(mp) == {mp[p].idx : p \in 1..Len(mp)} = 0..(size(mp) - 1)

\* the data-model invariants of the map together
WellFormed(mp, ind) == I1(mp, ind) /\ I2(mp, ind) /\ I3(mp)

\* C1: after every public mutating call that returns, every key order[i] has
\* a bucket whose stored index is i.
C1_IndexConsistency == outcome = "ok" => I1(map, indices)

\* C2: after every public mutating call that returns, order has no key twice
\* (after hashing), holds exactly the keys of the table, is as long as the
\* table is large, and the stored indices are exactly 0..size-1.
C2_BijectionAndDensity == outcome = "ok" => (I2(map, indices) /\ I3(map))

\* C3: after set on n keys with pairwise distinct hashes, starting from the
\* empty map, keys() is the keys in the order of the calls, indexOf(k_i) is
\* i-1 and size is n.
C3_InsertionOrder ==
    /\ keys(indices) = log
    /\ \A i \in 1..Len(log) : indexOf(map, log[i]) = i - 1
    /\ size(map) = Len(log)

\* three keys have been inserted
C3_Witness == Len(log) = MaxKey /\ keys(indices) = log /\ size(map) = MaxKey

\* the array without its slot j (0-based)
Without(ind, j) == SubSeq(ind, 1, j) \o SubSeq(ind, j + 2, Len(ind))

\* C4: in every state reached by calls that returned, delete(k) of a present key k at index j
\* returns k's value, removes k, keeps the other keys in their order, keeps
\* indexOf for the entries before j and lowers it by one for those after j.
C4_ShiftRemovalPreservesOrder ==
    outcome = "ok" =>
    \A k \in Present :
        LET j == indexOf(map, k)
            r == delete(map, indices, k)
        IN  /\ r.outcome = "ok"
            /\ r.ret = get(map, k)
            /\ ~has(r.map, k)
            /\ keys(r.indices) = Without(keys(indices), PosOf(indices, k))
            /\ \A o \in Present :
                 hash(o) # hash(k) =>
                    /\ get(r.map, o) = get(map, o)
                    /\ indexOf(r.map, o) =
                         IF indexOf(map, o) < j THEN indexOf(map, o) ELSE indexOf(map, o) - 1

\* C5: on a map that satisfies I1-I3, swapRemove(k) of a present key k at
\* index j returns k's value, removes k, leaves size n-1, puts the entry
\* that was last at index j (when j is not the last index) and leaves the
\* index and value of every other entry unchanged.
C5_SwapRemoval ==
    WellFormed(map, indices) =>
    \A k \in Present :
        LET j == indexOf(map, k)
            n == size(map)
            lastKey == ArrGet(indices, n - 1)
            r == swapRemove(map, indices, k)
        IN  /\ r.outcome = "ok"
            /\ r.ret = get(map, k)
            /\ ~has(r.map, k)
            /\ size(r.map) = n - 1
            /\ Len(r.indices) = n - 1
            /\ j # n - 1 =>
                 /\ ArrGet(r.indices, j) = lastKey
                 /\ indexOf(r.map, lastKey) = j
                 /\ get(r.map, lastKey) = get(map, lastKey)
            /\ \A o \in Present :
                 (hash(o) # hash(k) /\ hash(o) # hash(lastKey)) =>
                    /\ indexOf(r.map, o) = indexOf(map, o)
                    /\ ArrGet(r.indices, indexOf(map, o)) = ArrGet(indices, indexOf(map, o))
                    /\ get(r.map, o) = get(map, o)

\* swapRemove takes an entry that is not the last one out of a well-formed
\* map of at least three entries, and the last entry lands in its slot
C5_Witness ==
    /\ outcome = "ok"
    /\ WellFormed(map, indices)
    /\ size(map) >= MaxKey
    /\ \E k \in Present :
         LET r == swapRemove(map, indices, k)
         IN  /\ indexOf(map, k) < size(map) - 1
             /\ r.outcome = "ok"
             /\ r.ret = get(map, k)
             /\ size(r.map) = size(map) - 1
             /\ ArrGet(r.indices, indexOf(map, k)) = ArrGet(indices, size(map) - 1)

\* C6: with the custom hasher, set(k2, v2) for a key k2 that is not the
\* stored key k1 but hashes like it leaves size unchanged, returns the
\* previous value, makes get(k1) = get(k2) = v2, keeps k1's index and keeps
\* k1 as the key stored in order.
C6_HasherCollapsing ==
    hasher # "valueOf" =>
    \A k1 \in Keys, k2 \in Keys, v2 \in Values :
        (k1 # k2 /\ hash(k1) = hash(k2) /\ has(map, k1)
         /\ \E i \in 1..Len(indices) : indices[i] = k1) =>
            LET r == set(map, indices, k2, v2)
            IN  /\ r.outcome = "ok"
                /\ size(r.map) = size(map)
                /\ r.ret = get(map, k1)
                /\ get(r.map, k1) = <<v2>>
                /\ get(r.map, k2) = <<v2>>
                /\ indexOf(r.map, k1) = indexOf(map, k1)
                /\ keys(r.indices) = keys(indices)

\* the map stores k1, and set(k2, v2) with a k2 that hashes like k1
\* overwrites a different value
C6_Witness ==
    /\ hasher # "valueOf" /\ outcome = "ok"
    /\ \E k1 \in Keys, k2 \in Keys, v2 \in Values :
        /\ k1 # k2 /\ hash(k1) = hash(k2) /\ has(map, k1)
        /\ \E i \in 1..Len(indices) : indices[i] = k1
        /\ get(map, k1) # <<v2>>
        /\ set(map, indices, k2, v2).ret = get(map, k1)
        /\ get(set(map, indices, k2, v2).map, k1) = <<v2>>

\* C7: for every present entry the key returned by getFull(q) and by
\* getIndexEntry(i) is the key stored in order, also when q only hashes like
\* the stored key.
C7_ReturnedKeyIdentity ==
    WellFormed(map, indices) =>
    /\ \A q \in Present :
         getFull(map, indices, q).ret[ENTRY_KEY + 1] = ArrGet(indices, indexOf(map, q))
    /\ \A i \in 0..(size(map) - 1) :
         getIndexEntry(map, indices, i).ret[1] = ArrGet(indices, i)

\* the part of C7 about getIndexEntry, which the code satisfies
C7_GetIndexEntryKey ==
    WellFormed(map, indices) =>
    \A i \in 0..(size(map) - 1) :
        getIndexEntry(map, indices, i).ret[1] = ArrGet(indices, i)

NoneUnchanged(r) ==
    r.outcome = "ok" /\ r.ret = None /\ r.map = map /\ r.indices = indices

\* C8: getIndex, getIndexEntry, deleteIndex and swapRemoveIndex with an index
\* outside [0, size), and first, last, pop and shift on a map without
\* entries, return none, do not raise and leave the map unchanged, whatever
\* the hasher and however the empty map came about.
C8_AbsenceIsAValue ==
    /\ \A index \in Indexes :
         oob(index, size(map)) =>
            /\ NoneUnchanged(getIndex(map, indices, index))
            /\ NoneUnchanged(getIndexEntry(map, indices, index))
            /\ NoneUnchanged(deleteIndex(map, indices, index))
            /\ NoneUnchanged(swapRemoveIndex(map, indices, index))
    /\ size(map) = 0 =>
            /\ NoneUnchanged(first(map, indices))
            /\ NoneUnchanged(lastValue(map, indices))
            /\ NoneUnchanged(pop(map, indices))
            /\ NoneUnchanged(shift(map, indices))

\* C9: in every state reached by calls that returned, indexOf(k) is -1 exactly when has(k) is
\* false, and otherwise an i in [0, size) with getIndexEntry(i) the entry of
\* k (a key that hashes like k, and the value get(k)).
C9_IndexOfAgreesWithHas ==
    outcome = "ok" =>
    \A k \in Keys :
        /\ (indexOf(map, k) = -1) <=> ~has(map, k)
        /\ has(map, k) =>
             LET i == indexOf(map, k)
                 e == getIndexEntry(map, indices, i)
             IN  /\ i \in 0..(size(map) - 1)
                 /\ e.outcome = "ok"
                 /\ e.ret # None
                 /\ hash(e.ret[1]) = hash(k)
                 /\ <<e.ret[2]>> = get(map, k)

\* C10: on a map that satisfies I1-I3, swapIndices(a, b) with a and b in
\* [0, size) exchanges the keys at a and b together with their stored
\* indices, keeps every value and every other entry's position; with a or b
\* outside [0, size) it changes nothing and does not raise.
C10_SwapIndices ==
    WellFormed(map, indices) =>
    \A a \in Indexes, b \in Indexes :
        LET r == swapIndices(map, indices, a, b)
        IN  IF oob(a, size(map)) \/ oob(b, size(map))
            THEN r.outcome = "ok" /\ r.map = map /\ r.indices = indices
            ELSE /\ r.outcome = "ok"
                 /\ ArrGet(r.indices, a) = ArrGet(indices, b)
                 /\ ArrGet(r.indices, b) = ArrGet(indices, a)
                 /\ indexOf(r.map, ArrGet(indices, b)) = a
                 /\ indexOf(r.map, ArrGet(indices, a)) = b
                 /\ Len(r.indices) = Len(indices)
                 /\ \A i \in 0..(size(map) - 1) :
                      (i # a /\ i # b) =>
                         /\ ArrGet(r.indices, i) = ArrGet(indices, i)
                         /\ indexOf(r.map, ArrGet(indices, i)) = i
                 /\ \A k \in Keys : get(r.map, k) = get(map, k)

\* swapIndices exchanges two different slots of a well-formed map whose Map
\* insertion order already differs from the order array
C10_Witness ==
    /\ outcome = "ok"
    /\ WellFormed(map, indices)
    /\ \E p \in 1..Len(map) : map[p].k # hash(indices[p])
    /\ \E a \in Indexes, b \in Indexes :
         LET r == swapIndices(map, indices, a, b)
         IN  /\ a # b /\ ~oob(a, size(map)) /\ ~oob(b, size(map))
             /\ r.outcome = "ok"
             /\ ArrGet(r.indices, a) = ArrGet(indices, b)
             /\ indexOf(r.map, ArrGet(indices, a)) = b

\* the positions of a map of this size
Positions(mp) == 0..(size(mp) - 1)

\* every key keeps its value
SameValues(mp1, mp2) == \A k \in Keys : get(mp1, k) = get(mp2, k)

\* C11: on a map that satisfies I1-I3, moveIndex(from, to) with from and to
\* in [0, size) puts the entry of index from at index to, shifts the entries
\* between them (and the one at to) by one slot toward from, keeps the
\* relative order of all other entries and keeps every key's value.
C11_MoveIndex ==
    WellFormed(map, indices) =>
    \A from \in Positions(map), to \in Positions(map) :
        LET r == moveIndex(map, indices, from, to)
            moved == ArrGet(indices, from)
        IN  /\ r.outcome = "ok"
            /\ ArrGet(r.indices, to) = moved
            /\ indexOf(r.map, moved) = to
            /\ r.indices = SpliceInsert(Without(indices, from), to, moved)
            /\ \A i \in Positions(map) :
                 /\ (from < i /\ i <= to) => indexOf(r.map, ArrGet(indices, i)) = i - 1
                 /\ (to <= i /\ i < from) => indexOf(r.map, ArrGet(indices, i)) = i + 1
                 /\ (i < from /\ i < to) \/ (i > from /\ i > to) =>
                        indexOf(r.map, ArrGet(indices, i)) = i
            /\ SameValues(r.map, map)

\* moveIndex carries an entry over at least one other in each direction, on
\* a map whose Map insertion order differs from the order array
C11_Witness ==
    /\ outcome = "ok"
    /\ WellFormed(map, indices)
    /\ size(map) = MaxKey
    /\ \E p \in 1..Len(map) : map[p].k # hash(indices[p])
    /\ moveIndex(map, indices, 0, 2).indices = <<indices[2], indices[3], indices[1]>>
    /\ moveIndex(map, indices, 2, 0).indices = <<indices[3], indices[1], indices[2]>>
    /\ moveIndex(map, indices, 0, 2).outcome = "ok"

\* C12: on a map that satisfies I1-I3, reverse() moves the entry of index i
\* to index size-1-i (first() and last() exchange), keeps every key's value,
\* leaves every bucket storing its key's position, and run twice restores
\* the original order.
C12_Reverse ==
    WellFormed(map, indices) =>
    LET r == reverse(map, indices)
        rr == reverse(r.map, r.indices)
    IN  /\ r.outcome = "ok"
        /\ Len(r.indices) = Len(indices)
        /\ \A i \in Positions(map) :
             /\ ArrGet(r.indices, size(map) - 1 - i) = ArrGet(indices, i)
             /\ indexOf(r.map, ArrGet(indices, i)) = size(map) - 1 - i
        /\ first(r.map, r.indices) = [lastValue(map, indices) EXCEPT !.map = r.map, !.indices = r.indices]
        /\ lastValue(r.map, r.indices) = [first(map, indices) EXCEPT !.map = r.map, !.indices = r.indices]
        /\ SameValues(r.map, map)
        /\ I1(r.map, r.indices)
        /\ rr.outcome = "ok" /\ rr.indices = indices /\ rr.map = map

\* reverse() turns round a map of three entries
C12_Witness ==
    /\ outcome = "ok"
    /\ WellFormed(map, indices)
    /\ size(map) = MaxKey
    /\ reverse(map, indices).outcome = "ok"
    /\ reverse(map, indices).indices = <<indices[3], indices[2], indices[1]>>
    /\ first(reverse(map, indices).map, reverse(map, indices).indices).ret
         = <<MapGet(map, hash(indices[3])).val>>

\* C13: on a map that satisfies I1-I3, sort(cmp?) keeps the entries (keys
\* and their values), orders them so that for i < j the comparator does not
\* rank order[j] strictly before order[i], gives ascending keys without a
\* comparator, and with the descending comparator the reverse of that.
C13_Sort ==
    WellFormed(map, indices) =>
    \A cmp \in Cmps :
        LET r == sort(map, indices, cmp)
            asc == sort(map, indices, "none")
        IN  /\ r.outcome = "ok"
            /\ Len(r.indices) = Len(indices)
            /\ {r.indices[i] : i \in 1..Len(r.indices)} = {indices[i] : i \in 1..Len(indices)}
            /\ size(r.map) = size(map)
            /\ SameValues(r.map, map)
            /\ I1(r.map, r.indices)
            /\ \A i, j \in 1..Len(r.indices) :
                 i < j => compare(cmp, r.indices[j], r.indices[i]) # -1
            /\ \A i, j \in 1..Len(asc.indices) :
                 i < j => Prim(asc.indices[i]) < Prim(asc.indices[j])
            /\ cmp = "desc" => r.indices = ArrReverse(asc.indices)

\* both sorts reorder a map of three entries that is in neither order
C13_Witness ==
    /\ outcome = "ok"
    /\ WellFormed(map, indices)
    /\ size(map) >= 2
    /\ sort(map, indices, "none").indices # indices
    /\ sort(map, indices, "desc").indices # indices
    /\ sort(map, indices, "desc").indices # sort(map, indices, "none").indices
    /\ sort(map, indices, "desc").outcome = "ok"

\* C14: on a map that satisfies I1-I3, shiftInsert(index, k, v) of a key k
\* that is not present, with 0 <= index <= size, returns none, puts k at
\* index with value v, raises by one the index of every entry that was at a
\* position >= index, leaves the entries before index alone, and for
\* index = size does what set(k, v) does.
C14_ShiftInsertNew ==
    WellFormed(map, indices) =>
    \A k \in Keys, v \in Values, index \in 0..size(map) :
        ~has(map, k) =>
        LET r == shiftInsert(map, indices, index, k, v)
        IN  /\ r.outcome = "ok" /\ r.ret = None
            /\ indexOf(r.map, k) = index
            /\ ArrGet(r.indices, index) = k
            /\ get(r.map, k) = <<v>>
            /\ size(r.map) = size(map) + 1 /\ Len(r.indices) = Len(indices) + 1
            /\ \A i \in Positions(map) :
                 LET o == ArrGet(indices, i)
                     j == IF i >= index THEN i + 1 ELSE i
                 IN  /\ indexOf(r.map, o) = j
                     /\ ArrGet(r.indices, j) = o
                     /\ get(r.map, o) = get(map, o)
            /\ index = size(map) => r = set(map, indices, k, v)

\* a new key is inserted in front of two entries, and one is appended
C14_Witness ==
    /\ outcome = "ok"
    /\ WellFormed(map, indices)
    /\ size(map) = 2
    /\ \E k \in Keys :
        /\ ~has(map, k)
        /\ shiftInsert(map, indices, 0, k, 1).outcome = "ok"
        /\ shiftInsert(map, indices, 0, k, 1).indices = <<k>> \o indices
        /\ shiftInsert(map, indices, 2, k, 1).indices = indices \o <<k>>

\* C15: on a map that satisfies I1-I3, shiftInsert(index, k, v_new) of a key
\* k that is present with value v_old, with 0 <= index < size, returns v_old,
\* puts k at index, keeps the size, and afterwards get(k) is v_new.
C15_ShiftInsertExisting ==
    WellFormed(map, indices) =>
    \A k \in Keys, v_new \in Values, index \in Positions(map) :
        has(map, k) =>
        LET r == shiftInsert(map, indices, index, k, v_new)
        IN  /\ r.outcome = "ok"
            /\ r.ret = get(map, k)
            /\ indexOf(r.map, k) = index
            /\ size(r.map) = size(map)
            /\ get(r.map, k) = <<v_new>>

\* C16: shiftInsert(index, k, v) with index > size, and splitOff(at) with
\* at < 0 or at > size, raise a range error and leave the table and the
\* array as they were.
C16_RangeGuards ==
    /\ \A index \in Indexes, k \in Keys, v \in Values :
         index > size(map) =>
            shiftInsert(map, indices, index, k, v) = Raise(map, indices, "RangeError")
    /\ \A at \in Indexes :
         (at < 0 \/ at > size(map)) =>
            splitOff(map, indices, at) = Raise(map, indices, "RangeError")

\* both guards fire on a map that holds entries
C16_Witness ==
    /\ outcome = "ok"
    /\ size(map) = 2 /\ WellFormed(map, indices)
    /\ shiftInsert(map, indices, MaxKey, 1, 1).outcome = "RangeError"
    /\ splitOff(map, indices, MaxKey).outcome = "RangeError"
    /\ splitOff(map, indices, -1).outcome = "RangeError"

\* C17: on a map that satisfies I1-I3, truncate(n) with 0 <= n < size leaves
\* exactly the first n entries with their order, values and indices, so
\* that last() is the entry that was at n-1; with n >= size it changes
\* nothing.
C17_Truncate ==
    WellFormed(map, indices) =>
    \A n \in 0..MaxKey :
        LET r == truncate(map, indices, n)
        IN  IF n >= size(map)
            THEN r = Ok(map, indices, None)
            ELSE /\ r.outcome = "ok"
                 /\ size(r.map) = n
                 /\ r.indices = SubSeq(indices, 1, n)
                 /\ \A i \in 0..(n - 1) :
                      /\ indexOf(r.map, ArrGet(indices, i)) = i
                      /\ get(r.map, ArrGet(indices, i)) = get(map, ArrGet(indices, i))
                 /\ n > 0 => lastValue(r.map, r.indices).ret
                                = getIndex(map, indices, n - 1).ret

\* truncate(1) cuts a map of three entries, whose Map insertion order
\* differs from the order array, down to its first entry
C17_Witness ==
    /\ outcome = "ok"
    /\ WellFormed(map, indices)
    /\ size(map) = MaxKey
    /\ \E p \in 1..Len(map) : map[p].k # hash(indices[p])
    /\ truncate(map, indices, 1).outcome = "ok"
    /\ truncate(map, indices, 1).indices = <<indices[1]>>
    /\ size(truncate(map, indices, 1).map) = 1

\* the entries of a map in order: each key of the array with its value
entries(mp, ind) == [i \in 1..Len(ind) |-> <<ind[i], get(mp, ind[i])>>]

SplitRoundTrip(mp, ind) ==
    \A at \in 0..size(mp) :
        LET r == splitOff(mp, ind, at)
        IN  /\ r.outcome = "ok"
            /\ size(r.map) = at
            /\ size(r.other.map) = size(mp) - at
            /\ I1(r.other.map, r.other.indices)
            /\ entries(r.map, r.indices) \o entries(r.other.map, r.other.indices)
                 = entries(mp, ind)

\* C18: in every reachable state and for every at in [0, size], splitOff(at)
\* leaves the receiver with size at and returns a map of size n - at whose
\* indices start at 0 and satisfy I1, and the receiver's entries followed
\* by the returned map's entries are the original entries.
C18_SplitRoundTrip == outcome = "ok" => SplitRoundTrip(map, indices)

\* C18 restricted to the maps that satisfy I1-I3
C18_SplitRoundTripWellFormed == WellFormed(map, indices) => SplitRoundTrip(map, indices)

\* what the mutating calls do to a map, for all their arguments
MutatingCalls(mp, ind) ==
    {set(mp, ind, k, v) : k \in Keys, v \in Values}
    \cup {delete(mp, ind, k) : k \in Keys}
    \cup {swapRemove(mp, ind, k) : k \in Keys}
    \cup {swapIndices(mp, ind, a, b) : a \in Indexes, b \in Indexes}
    \cup {moveIndex(mp, ind, a, b) : a \in Indexes, b \in Indexes}
    \cup {shiftInsert(mp, ind, i, k, v) : i \in Indexes, k \in Keys, v \in Values}
    \cup {sort(mp, ind, cmp) : cmp \in Cmps}
    \cup {truncate(mp, ind, n) : n \in 0..MaxKey}
    \cup {reverse(mp, ind), pop(mp, ind), shift(mp, ind), clear(mp, ind)}

\* C19: m2 = m.clone() has the entries of m in the same order with the same
\* indices, and after m2 = m.clone() or m2 = m.splitOff(at) every mutating
\* call on one of the two maps leaves the keys, order, values and indices
\* of the other as they were.
C19_IndependenceOfCopies ==
    /\ (~copy.made /\ outcome = "ok") =>
         LET c == clone(Load(map, indices), "m")
         IN  /\ ViewMap(c, "m2") = map /\ ViewArr(c, "m2") = indices
             /\ ViewMap(c, "m") = map /\ ViewArr(c, "m") = indices
    /\ (copy.made /\ outcome = "ok") =>
         \A x \in MapNames :
            \A r \in MutatingCalls(ViewMap(copy, x), ViewArr(copy, x)) :
                /\ ViewMap(Store(copy, x, r), Other(x)) = ViewMap(copy, Other(x))
                /\ ViewArr(Store(copy, x, r), Other(x)) = ViewArr(copy, Other(x))

\* after a copy one map has been changed by a call, the two maps share a
\* key and no longer agree on it
C19_Witness ==
    /\ copy.made /\ copy.steps >= 1 /\ outcome = "ok"
    /\ size(ViewMap(copy, "m")) >= 2 /\ size(ViewMap(copy, "m2")) >= 2
    /\ \E k \in Keys :
        /\ has(ViewMap(copy, "m"), k) /\ has(ViewMap(copy, "m2"), k)
        /\ \/ get(ViewMap(copy, "m"), k) # get(ViewMap(copy, "m2"), k)
           \/ indexOf(ViewMap(copy, "m"), k) # indexOf(ViewMap(copy, "m2"), k)

DrainToCompletion(mp, ind) ==
    \A start \in 0..size(mp), end \in 0..size(mp) :
        start <= end =>
        LET r == drain(mp, ind, start, end)
        IN  /\ r.outcome = "ok"
            /\ [i \in 1..Len(r.ret) |-> <<r.ret[i][1], <<r.ret[i][2]>>>>]
                 = SubSeq(entries(mp, ind), start + 1, end)
            /\ size(r.map) = size(mp) - (end - start)
            /\ entries(r.map, r.indices)
                 = SubSeq(entries(mp, ind), 1, start) \o SubSeq(entries(mp, ind), end + 1, Len(ind))
            /\ (start = 0 /\ end = size(mp)) => (size(r.map) = 0 /\ r.indices = <<>>)

\* C20: in every reachable state and for 0 <= start <= end <= size, the
\* drain(start, end) pulled to its end yields the entries of the indices
\* start .. end-1, each once and in that order, and leaves the map with
\* size - (end - start) entries, the remaining ones in their order; for the
\* full range the map ends empty.
C20_DrainToCompletion == outcome = "ok" => DrainToCompletion(map, indices)

\* C20 restricted to the maps that satisfy I1-I3
C20_DrainToCompletionWellFormed == WellFormed(map, indices) => DrainToCompletion(map, indices)

\* C20 restricted to the maps whose Map insertion order is the order of
\* the array
C20_DrainInInsertionOrder ==
    (WellFormed(map, indices) /\ \A p \in 1..Len(map) : map[p].k = hash(indices[p]))
        => DrainToCompletion(map, indices)

\* the drain d after j more pulls, none of them after a pull that raised
\* or reported the end
RECURSIVE Drain_pulls(_, _)
Drain_pulls(p, j) ==
    IF j = 0 \/ p.outcome # "ok" \/ p.done THEN p
    ELSE Drain_pulls(Drain_next(p.map, p.indices, p.drain), j - 1)

\* the j-th pull of drain(start, end) gave the entry of the original index
\* start + j - 1 and left the map well formed, one entry shorter than the
\* pull before it, with the entries of the indices start .. start+j-1 gone
PartialDrainStep(mp, ind, start, j, before, p) ==
    /\ p.outcome = "ok" /\ ~p.done
    /\ <<p.ret[1], <<p.ret[2]>>>> = entries(mp, ind)[start + j]
    /\ WellFormed(p.map, p.indices)
    /\ size(p.map) = size(mp) - j
    /\ size(p.map) = size(before.map) - 1
    /\ entries(p.map, p.indices)
         = SubSeq(entries(mp, ind), 1, start) \o SubSeq(entries(mp, ind), start + j + 1, Len(ind))

PartialDrain(mp, ind) ==
    \A start \in 0..size(mp), end \in 0..size(mp) :
        start <= end =>
        \A j \in 1..(end - start) :
            PartialDrainStep(mp, ind, start, j,
                Drain_pulls(Pulled(mp, ind, None, "ok", Drain(start, end), FALSE), j - 1),
                Drain_pulls(Pulled(mp, ind, None, "ok", Drain(start, end), FALSE), j))

\* C21: on a map that satisfies I1-I3, after each of the first j pulls of
\* drain(start, end), j <= end - start, the map satisfies I1, I2 and I3 and
\* has size - j entries, the removed ones being those of the original
\* indices start .. start+j-1, and every pull removes exactly one entry.
C21_PartialDrain == WellFormed(map, indices) => PartialDrain(map, indices)

\* C21 restricted to the maps whose Map insertion order is the order of
\* the array
C21_PartialDrainInInsertionOrder ==
    (WellFormed(map, indices) /\ \A p \in 1..Len(map) : map[p].k = hash(indices[p]))
        => PartialDrain(map, indices)

\* a well-formed map of two entries or more whose Map insertion order is
\* the order of the array: a drain of it can be left after one pull
C21_InsertionOrderWitness ==
    /\ WellFormed(map, indices) /\ size(map) >= 2
    /\ \A p \in 1..Len(map) : map[p].k = hash(indices[p])
    /\ Drain_pulls(Pulled(map, indices, None, "ok", Drain(0, 2), FALSE), 1).outcome = "ok"

\* splice(start, end, replace_with) pulled from the front to its end puts
\* the j-th replacement key and value at index start + j and yields the
\* old entries of the indices start .. end-1 in their order
SpliceResult(mp, ind, start, end, replace_with, r) ==
    /\ r.outcome = "ok"
    /\ \A j \in 1..Len(replace_with) :
         /\ ArrGet(r.indices, start + j - 1) = replace_with[j][1]
         /\ get(r.map, replace_with[j][1]) = <<replace_with[j][2]>>
    /\ [i \in 1..Len(r.ret) |-> <<r.ret[i][1], <<r.ret[i][2]>>>>]
         = SubSeq(entries(mp, ind), start + 1, end)

SpliceToCompletion(mp, ind, fresh) ==
    \A start \in 0..size(mp), end \in 0..size(mp) :
        start <= end =>
        \A replace_with \in ReplaceWith(end - start) :
            (fresh => \A j \in 1..(end - start) : ~has(mp, replace_with[j][1])) =>
            SpliceResult(mp, ind, start, end, replace_with,
                         splice(mp, ind, start, end, replace_with))

\* C22: on a map that satisfies I1-I3, for 0 <= start <= end <= size and
\* end - start replacement pairs with pairwise distinct keys, the splice
\* pulled from the front to its end leaves the j-th replacement key with
\* the j-th value at index start + j and yields the old (key, value) pairs
\* of the indices start .. end-1 in index order.
C22_SpliceToCompletion == WellFormed(map, indices) => SpliceToCompletion(map, indices, FALSE)

\* C22 with the default hasher
C22_SpliceDefaultHasher ==
    (WellFormed(map, indices) /\ hasher = "valueOf") => SpliceToCompletion(map, indices, FALSE)

\* C22 with the default hasher and replacement keys that are not in the map
C22_SpliceFreshKeys ==
    (WellFormed(map, indices) /\ hasher = "valueOf") => SpliceToCompletion(map, indices, TRUE)

\* a map with the default hasher in which an entry can be replaced by a
\* key that is not in the map
C22_FreshKeysWitness ==
    /\ WellFormed(map, indices) /\ hasher = "valueOf"
    /\ size(map) = 2 /\ \E k \in Keys : ~has(map, k)

\* one step of a splice put the pair (k, v) at index i: p is what the pull
\* gave.  A key with another hash that is not in the map takes the place
\* of the old key, whose bucket is removed; a key with the hash of the old
\* key changes the value only.
SpliceStepResult(mp, ind, i, k, v, p, other) ==
    /\ p.outcome = "ok" /\ ~p.done
    /\ (other /\ hash(k) # hash(ArrGet(ind, i)) /\ ~has(mp, k)) =>
         /\ ~has(p.map, ArrGet(ind, i))
         /\ size(p.map) = Len(p.indices)
         /\ \A a, b \in 1..Len(p.indices) : a # b => p.indices[a] # p.indices[b]
         /\ I1(p.map, p.indices)
    /\ hash(k) = hash(ArrGet(ind, i)) =>
         /\ p.indices = ind
         /\ size(p.map) = size(mp)
         /\ \A j \in 1..Len(ind) :
              /\ indexOf(p.map, ind[j]) = indexOf(mp, ind[j])
              /\ get(p.map, ind[j]) = IF j = i + 1 THEN <<v>> ELSE get(mp, ind[j])

SpliceStep(mp, ind, other) ==
    \A i \in 0..(size(mp) - 1), k \in Keys, v \in Values :
        SpliceStepResult(mp, ind, i, k, v,
            Splice_next(mp, ind, Splice(mp, i, i + 1, <<<<k, v>>>>)), other)

\* C23: on a map that satisfies I1-I3, a splice step that replaces an old
\* key by a key with a different hash that is not in the map removes the
\* old key's bucket: afterwards has(old key) is false, the table has as
\* many entries as the order array, no key is twice in the array and I1
\* holds; a step whose new key has the hash of the old key changes the
\* value only.
C23_SpliceStep == WellFormed(map, indices) => SpliceStep(map, indices, TRUE)

\* C23 with the default hasher
C23_SpliceStepDefaultHasher ==
    (WellFormed(map, indices) /\ hasher = "valueOf") => SpliceStep(map, indices, TRUE)

\* the second half of C23 with the default hasher: a step whose new key is
\* the old key changes the value only
C23_SpliceStepSameKey ==
    (WellFormed(map, indices) /\ hasher = "valueOf") => SpliceStep(map, indices, FALSE)

\* a step of a splice has put a new value under the key that was there
C23_SameKeyWitness ==
    /\ WellFormed(map, indices) /\ hasher = "valueOf" /\ size(map) >= 2
    /\ \E i \in 0..(size(map) - 1) :
         LET p == Splice_next(map, indices, Splice(map, i, i + 1, <<<<ArrGet(indices, i), 2>>>>))
         IN  p.outcome = "ok" /\ get(p.map, ArrGet(indices, i)) # get(map, ArrGet(indices, i))

\* a splice under the pulls ops, each "next" or "next_back": what the last
\* pull gave (p), and how many pulls from the front (nf) and from the back
\* (nb) had given an item before it
RECURSIVE SplicePulls(_, _)
SplicePulls(t, ops) ==
    IF ops = <<>> \/ t.p.outcome # "ok" THEN t
    ELSE SplicePulls(
           [p  |-> IF Head(ops) = "next"
                   THEN Splice_next(t.p.map, t.p.indices, t.p.splice)
                   ELSE Splice_next_back(t.p.map, t.p.indices, t.p.splice),
            nf |-> t.nf + (IF t.op = "next" /\ ~t.p.done THEN 1 ELSE 0),
            nb |-> t.nb + (IF t.op = "next_back" /\ ~t.p.done THEN 1 ELSE 0),
            op |-> Head(ops),
            left |-> t.p.splice.replace],
           Tail(ops))

PullOrders(backToo) ==
    UNION {[1..n -> IF backToo THEN {"next", "next_back"} ELSE {"next"}] : n \in 1..MaxPulls}

\* the last pull of t: it reports the end exactly when the range is used
\* up or no replacement pair is left, and otherwise it puts the next
\* replacement key at index start + nf (from the front) or end - 1 - nb
\* (from the back)
DoubleEndedPull(start, end, t) ==
    /\ t.p.outcome = "ok"
    /\ t.p.done <=> (t.nf + t.nb >= end - start \/ t.left = <<>>)
    /\ ~t.p.done =>
         ArrGet(t.p.indices, IF t.op = "next" THEN start + t.nf ELSE end - 1 - t.nb)
            = hash(t.left[1][1])

DoubleEndedSplice(mp, ind, backToo) ==
    \A start \in 0..size(mp), end \in 0..size(mp) :
        start <= end =>
        \A n \in 0..MaxReplace : \A replace_with \in ReplaceWith(n) :
            ((\A j \in 1..n : ~has(mp, replace_with[j][1])) /\ (backToo \/ n <= end - start)) =>
            \A ops \in PullOrders(backToo) :
                DoubleEndedPull(start, end,
                    SplicePulls([p |-> Spliced(mp, ind, None, "ok",
                                               Splice(mp, start, end, replace_with), TRUE),
                                 nf |-> 0, nb |-> 0, op |-> "none", left |-> replace_with],
                                ops))

\* C24: on a map that satisfies I1-I3, under every order of next() and
\* next_back() calls on a splice of new keys, the j-th pull from the front
\* that gives an item overwrites index start + j and the j-th such pull
\* from the back overwrites index end - 1 - j, so that no index is
\* overwritten twice, and a pull reports the end as soon as the two ends
\* have met or no replacement pair is left.
C24_DoubleEndedSplice == WellFormed(map, indices) => DoubleEndedSplice(map, indices, TRUE)

\* C24 with the default hasher
C24_DoubleEndedDefaultHasher ==
    (WellFormed(map, indices) /\ hasher = "valueOf") => DoubleEndedSplice(map, indices, TRUE)

\* C24 with the default hasher for pulls from the front only and no more
\* replacement pairs than the range has indices
C24_FrontPulls ==
    (WellFormed(map, indices) /\ hasher = "valueOf") => DoubleEndedSplice(map, indices, FALSE)

\* a map with the default hasher that a splice of one new key can be
\* pulled on
C24_FrontPullsWitness ==
    /\ WellFormed(map, indices) /\ hasher = "valueOf" /\ size(map) = 2
    /\ \E k \in Keys :
         /\ ~has(map, k)
         /\ ~Splice_next(map, indices, Splice(map, 0, 2, <<<<k, 1>>>>)).done

SpliceRangeGuard(mp, ind) ==
    \A start \in 0..MaxKey, end \in 0..MaxKey :
        (end > size(mp) \/ start > end) =>
        \A n \in 0..MaxReplace : \A replace_with \in ReplaceWith(n) :
            /\ Splice_new(mp, ind, start, end, replace_with).outcome = "RangeError"
            /\ splice(mp, ind, start, end, replace_with).outcome = "RangeError"
            /\ splice(mp, ind, start, end, replace_with).map = mp
            /\ splice(mp, ind, start, end, replace_with).indices = ind

\* C25: on a map that satisfies I1-I3, splice(start, end, replacements)
\* with end > size or start > end raises a range error when it is called,
\* and no entry of the map is changed.
C25_SpliceRangeGuard == WellFormed(map, indices) => SpliceRangeGuard(map, indices)

\* C25, the second half alone: a splice with end > size or start > end,
\* pulled to its end, changes no entry of the map
C25_SpliceOutOfRangeChangesNothing ==
    WellFormed(map, indices) =>
        \A start \in 0..MaxKey, end \in 0..MaxKey :
            (end > size(map) \/ start > end) =>
            \A n \in 0..MaxReplace : \A replace_with \in ReplaceWith(n) :
                /\ splice(map, indices, start, end, replace_with).map = map
                /\ splice(map, indices, start, end, replace_with).indices = indices

\* the entries of a sequence of entries whose key is in keep, in their order
RECURSIVE Kept(_, _)
Kept(es, keep) ==
    IF es = <<>> THEN <<>>
    ELSE (IF es[1][1] \in keep THEN <<es[1]>> ELSE <<>>) \o Kept(Tail(es), keep)

RetainResult(mp, ind, keep, r, calls) ==
    /\ r.outcome = "ok"
    /\ WellFormed(r.map, r.indices)
    /\ entries(r.map, r.indices) = Kept(entries(mp, ind), keep)
    /\ calls = ArrReverse(ind)

Retain(mp, ind) ==
    \A keep \in SUBSET Keys :
        RetainResult(mp, ind, keep, retain(mp, ind, keep),
                     retainCalls(mp, ind, Len(ind) - 1, keep))

\* C26: on a map that satisfies I1-I3 and for every predicate p, after
\* retain(p) the map holds exactly the entries for which p is true, in
\* their original relative order and with the indices 0 .. size-1, and p
\* has been called exactly once on each original entry.
C26_Retain == WellFormed(map, indices) => Retain(map, indices)

\* C26 restricted to the maps whose Map insertion order is the order of
\* the array
C26_RetainInInsertionOrder ==
    (WellFormed(map, indices) /\ \A p \in 1..Len(map) : map[p].k = hash(indices[p]))
        => Retain(map, indices)

\* a map of three entries in insertion order: retain can reject two
\* adjacent entries of it
C26_InsertionOrderWitness ==
    /\ WellFormed(map, indices) /\ size(map) = 3
    /\ \A p \in 1..Len(map) : map[p].k = hash(indices[p])
    /\ size(retain(map, indices, {indices[1]}).map) = 1

Range(xs) == {xs[j] : j \in 1..Len(xs)}

\* x is an element of the set with the array ind: some key of the array
\* has its hash
InSet(ind, x) == \E j \in 1..Len(ind) : hash(ind[j]) = hash(x)

\* the elements of the sequence xs that are (are not) in the set with the
\* array ind, in the order of xs
RECURSIVE Those(_, _, _)
Those(xs, ind, in) ==
    IF xs = <<>> THEN <<>>
    ELSE (IF InSet(ind, xs[1]) = in THEN <<xs[1]>> ELSE <<>>) \o Those(Tail(xs), ind, in)

NoTwice(xs) == \A a, b \in 1..Len(xs) : a # b => hash(xs[a]) # hash(xs[b])

UnionResult(ind, other, r) ==
    /\ r.outcome = "ok"
    /\ r.ret = ind \o Those(other.indices, ind, FALSE)
    /\ NoTwice(r.ret)
    /\ Len(r.ret) = Len(ind) + Len(Those(other.indices, ind, FALSE))

\* C27: for sets A and B, A satisfying I1-I3, union(A, B) yields all the
\* elements of A in A's order and then the elements of B that are not in
\* A in B's order, none of them twice: |A| + |difference(B, A)| elements.
C27_Union ==
    WellFormed(map, indices) =>
        \A other \in IndexSets : UnionResult(indices, other, union(map, indices, other))

\* C27 for an empty B
C27_UnionWithEmpty ==
    WellFormed(map, indices) =>
        UnionResult(indices, IndexSet_of(<<>>), union(map, indices, IndexSet_of(<<>>)))

\* a set of two elements or more, whose union with the empty set yields
\* them
C27_WithEmptyWitness ==
    /\ WellFormed(map, indices) /\ size(map) >= 2
    /\ Len(union(map, indices, IndexSet_of(<<>>)).ret) >= 2

PartitionResult(ind, other, ri, rd) ==
    /\ ri.outcome = "ok" /\ rd.outcome = "ok"
    /\ ri.ret = Those(ind, other.indices, TRUE)
    /\ rd.ret = Those(ind, other.indices, FALSE)
    /\ \A j \in 1..Len(ind) :
         Cardinality({a \in 1..Len(ri.ret) : ri.ret[a] = ind[j]})
           + Cardinality({a \in 1..Len(rd.ret) : rd.ret[a] = ind[j]}) = 1
    /\ \A a \in 1..Len(ri.ret) : InSet(ind, ri.ret[a])
    /\ \A a \in 1..Len(rd.ret) : InSet(ind, rd.ret[a])

\* C28: for sets A and B, A satisfying I1-I3, every element of A is
\* yielded by exactly one of intersection(A, B) and difference(A, B),
\* neither yields anything else or anything twice, and each yields its
\* elements in A's order, in the reverse order when pulled from the back.
C28_Partition ==
    WellFormed(map, indices) =>
        \A other \in IndexSets :
            /\ PartitionResult(indices, other,
                               intersection(map, indices, other, FALSE),
                               difference(map, indices, other, FALSE))
            /\ PartitionResult(ArrReverse(indices), other,
                               intersection(map, indices, other, TRUE),
                               difference(map, indices, other, TRUE))

\* C28 for an empty A
C28_PartitionOfEmpty ==
    (WellFormed(map, indices) /\ size(map) = 0) =>
        \A other \in IndexSets :
            PartitionResult(indices, other,
                            intersection(map, indices, other, FALSE),
                            difference(map, indices, other, FALSE))

SubsetResult(mp, ind, other) ==
    /\ isSubset(mp, ind, other).outcome = "ok"
    /\ isSubset(mp, ind, other).ret = <<\A j \in 1..Len(ind) : InSet(other.indices, ind[j])>>
    /\ isSuperset(mp, ind, other).outcome = "ok"
    /\ isSuperset(mp, ind, other).ret
         = isSubset(other.map, other.indices, IndexSet(mp, ind)).ret
    /\ isSuperset(mp, ind, other).ret
         = <<\A j \in 1..Len(other.indices) : InSet(ind, other.indices[j])>>
    /\ isSubset(mp, ind, other).map = mp /\ isSubset(mp, ind, other).indices = ind
    /\ isSuperset(mp, ind, other).map = mp /\ isSuperset(mp, ind, other).indices = ind

\* C29: for sets A and B, A satisfying I1-I3, A.isSubset(B) is true exactly
\* when every element of A is in B, A.isSuperset(B) equals B.isSubset(A),
\* and neither call changes A; the empty sets are included.
C29_SubsetSuperset ==
    WellFormed(map, indices) => \A other \in IndexSets : SubsetResult(map, indices, other)

\* a set of two elements that is a subset of one set and not of another,
\* and a superset of one set and not of another
C29_Witness ==
    /\ WellFormed(map, indices) /\ size(map) = 2
    /\ \E b1, b2 \in IndexSets :
         /\ isSubset(map, indices, b1).ret = <<TRUE>>
         /\ isSubset(map, indices, b2).ret = <<FALSE>>
         /\ b2.indices # <<>>
    /\ \E b1, b2 \in IndexSets :
         /\ isSuperset(map, indices, b1).ret = <<TRUE>>
         /\ isSuperset(map, indices, b2).ret = <<FALSE>>
         /\ b1.indices # <<>>

AppendResult(mp, ind, other, r) ==
    /\ r.outcome = "ok"
    /\ r.other.indices = ind \o Those(other.indices, ind, FALSE)
    /\ size(r.other.map) = Cardinality({hash(x) : x \in Range(ind) \cup Range(other.indices)})
    /\ size(r.other.map) = Len(r.other.indices)
    /\ I1(r.other.map, r.other.indices)
    /\ r.map = mp /\ r.indices = ind

SetUnique(mp, ind) == NoTwice(ind) /\ size(mp) = Len(ind)

\* C31: an IndexSet built from an iterable, repeated elements included,
\* and then changed by add, delete, shiftInsert and extend yields every
\* element at most once from iter(), and its size is the number of
\* elements iter() yields.
C31_SetUniqueness == outcome = "ok" => SetUnique(map, indices)

\* C31 for the sets whose stored indices are the positions (I1-I3) and
\* whose Map insertion order is the order of the array, after one more call
C31_UniquenessInInsertionOrder ==
    (WellFormed(map, indices) /\ \A p \in 1..Len(map) : map[p].k = hash(indices[p])) =>
        /\ SetUnique(map, indices)
        /\ \A x \in Keys, xs \in Iterables, index \in 0..size(map) :
             /\ SetUnique(set(map, indices, x, x).map, set(map, indices, x, x).indices)
             /\ SetUnique(delete(map, indices, x).map, delete(map, indices, x).indices)
             /\ SetUnique(extend(map, indices, xs).map, extend(map, indices, xs).indices)
             /\ SetUnique(shiftInsert(map, indices, index, x, x).map,
                          shiftInsert(map, indices, index, x, x).indices)

\* a set of three elements built from an iterable without repetitions
C31_InsertionOrderWitness ==
    /\ WellFormed(map, indices) /\ size(map) = 3
    /\ \A p \in 1..Len(map) : map[p].k = hash(indices[p])

\* the keys of the pairs in the order of their first occurrence, two keys
\* with one hash being one key
RECURSIVE FirstSeen(_, _, _)
FirstSeen(pairs, h, seen) ==
    IF pairs = <<>> THEN <<>>
    ELSE IF \E j \in 1..Len(seen) : hashWith(h, seen[j]) = hashWith(h, pairs[1][1])
         THEN FirstSeen(Tail(pairs), h, seen)
         ELSE <<pairs[1][1]>> \o FirstSeen(Tail(pairs), h, Append(seen, pairs[1][1]))

\* the value of the last pair whose key has the hash of k
LastValue(pairs, h, k) ==
    pairs[CHOOSE j \in 1..Len(pairs) :
            /\ hashWith(h, pairs[j][1]) = hashWith(h, k)
            /\ \A i \in (j + 1)..Len(pairs) : hashWith(h, pairs[i][1]) # hashWith(h, k)][2]

\* the map IndexMap.from(pairs, h) gave has one entry for each distinct
\* key, in the order of the first occurrences, with the last value seen
FromResult(pairs, h, mp, ind) ==
    /\ ind = FirstSeen(pairs, h, <<>>)
    /\ size(mp) = Len(ind)
    /\ \A p \in 1..Len(ind) :
         /\ MapHas(mp, hashWith(h, ind[p]))
         /\ MapGet(mp, hashWith(h, ind[p])).idx = p - 1
         /\ MapGet(mp, hashWith(h, ind[p])).val = LastValue(pairs, h, ind[p])
    /\ I3(mp)

Repeats(pairs, h) ==
    \E a, b \in 1..Len(pairs) : a # b /\ hashWith(h, pairs[a][1]) = hashWith(h, pairs[b][1])

\* C32: IndexMap.from(pairs) with a key that occurs more than once gives a
\* map with one entry for each distinct key, holding the key's last value,
\* the keys in the order of their first occurrence, and I1, I2 and I3 hold
\* (the order array is as long as the table).
C32_FromDuplicates ==
    (log # <<>> /\ Repeats(log[1], log[2])) => FromResult(log[1], log[2], map, indices)

\* the same for pairs without a repeated key, with the default hasher
C32_FromDistinct ==
    (log # <<>> /\ ~Repeats(log[1], log[2]) /\ log[2] = "valueOf") =>
        FromResult(log[1], log[2], map, indices) /\ WellFormed(map, indices)

\* a map built from three pairs with three keys
C32_DistinctWitness ==
    /\ log # <<>> /\ ~Repeats(log[1], log[2]) /\ log[2] = "valueOf"
    /\ Len(log[1]) = 3 /\ size(map) = 3

PopFullResult(mp, ind, r) ==
    /\ r.outcome = "ok"
    /\ IF size(mp) = 0
       THEN r.ret = None /\ r.map = mp /\ r.indices = ind
       ELSE /\ r.ret = <<size(mp) - 1, ind[Len(ind)]>> \o get(mp, ind[Len(ind)])
            /\ WellFormed(r.map, r.indices)
            /\ entries(r.map, r.indices) = SubSeq(entries(mp, ind), 1, Len(ind) - 1)

\* C33: on a map that satisfies I1-I3, popFull() on a non-empty map, a map
\* of size 1 included, removes the last entry and returns its
\* [index, key, value] with index = size - 1, and I1, I2 and I3 still hold;
\* on the empty map it returns none and changes nothing.
C33_PopFull == WellFormed(map, indices) => PopFullResult(map, indices, popFull(map, indices))

\* C33 for the maps of any size but 1
C33_PopFullNotOfOne ==
    (WellFormed(map, indices) /\ size(map) # 1) =>
        PopFullResult(map, indices, popFull(map, indices))

\* a map of two entries or more, whose last entry popFull removes
C33_NotOfOneWitness ==
    /\ WellFormed(map, indices) /\ size(map) >= 2
    /\ size(popFull(map, indices).map) = size(map) - 1

\* the keys are in ascending order
Ascending(ind) == \A i \in 1..(Len(ind) - 1) : ~(Prim(ind[i]) > Prim(ind[i + 1]))

SameMap(mp, ind, r) ==
    /\ r.outcome = "ok"
    /\ r.indices = ind
    /\ \A k \in Keys : get(r.map, k) = get(mp, k) /\ indexOf(r.map, k) = indexOf(mp, k)

\* C34: on a map that satisfies I1-I3, isSorted() returns true exactly when
\* the keys are in ascending order (no i with order[i] > order[i+1]), and
\* it leaves the order of the entries, their values and their indices as
\* they were.
C34_IsSorted ==
    WellFormed(map, indices) =>
        \A laterFirst \in ArgOrders(indices) :
            /\ isSorted(map, indices, laterFirst).ret = <<Ascending(indices)>>
            /\ SameMap(map, indices, isSorted(map, indices, laterFirst))

\* the second half of C34: isSorted leaves the map as it was
C34_IsSortedLeavesTheMap ==
    WellFormed(map, indices) =>
        \A laterFirst \in ArgOrders(indices) :
            SameMap(map, indices, isSorted(map, indices, laterFirst))

\* C34 on an engine that passes the earlier element first in every call
C34_IsSortedEarlierFirst ==
    WellFormed(map, indices) =>
        \A laterFirst \in ArgOrders(indices) :
            (\A i \in DOMAIN laterFirst : ~laterFirst[i]) =>
                isSorted(map, indices, laterFirst).ret = <<Ascending(indices)>>

\* a map of three entries that are not in ascending order
C34_LeavesTheMapWitness ==
    /\ WellFormed(map, indices) /\ size(map) = 3 /\ ~Ascending(indices)
    /\ \E laterFirst \in ArgOrders(indices) :
         isSorted(map, indices, laterFirst).ret = <<TRUE>>

\* the splice left the entries outside the indices start .. end-1 as they
\* were and yielded no more entries than the range has
SpliceFrame(mp, ind, start, end, r) ==
    /\ r.outcome = "ok"
    /\ Len(r.ret) <= end - start
    /\ \A i \in 0..(size(mp) - 1) :
         (i < start \/ i >= end) =>
            /\ ArrGet(r.indices, i) = ArrGet(ind, i)
            /\ get(r.map, ArrGet(ind, i)) = get(mp, ArrGet(ind, i))

SpliceTouchesOnlyRange(mp, ind, more, present) ==
    \A start \in 0..size(mp), end \in 0..size(mp) :
        start <= end =>
        \A n \in 0..MaxReplace : \A replace_with \in ReplaceWith(n) :
            ((more \/ n <= end - start)
               /\ (present \/ \A j \in 1..n : ~has(mp, replace_with[j][1]))) =>
            SpliceFrame(mp, ind, start, end, splice(mp, ind, start, end, replace_with))

\* C35: on a map that satisfies I1-I3, splice(start, end, replacements)
\* pulled to its end overwrites no entry outside the indices
\* start .. end-1, also when there are more than end - start replacement
\* pairs: order[i] and its value are as they were for i < start and for
\* i >= end, and at most end - start entries have been yielded.
C35_SpliceTouchesOnlyRange ==
    WellFormed(map, indices) => SpliceTouchesOnlyRange(map, indices, TRUE, TRUE)

\* C35 with the default hasher and replacement keys that are not in the map
C35_SpliceNewKeys ==
    (WellFormed(map, indices) /\ hasher = "valueOf")
        => SpliceTouchesOnlyRange(map, indices, TRUE, FALSE)

\* C35 with the default hasher, replacement keys that are not in the map
\* and no more replacement pairs than the range has indices
C35_SpliceWithinRange ==
    (WellFormed(map, indices) /\ hasher = "valueOf")
        => SpliceTouchesOnlyRange(map, indices, FALSE, FALSE)

\* C35 with the default hasher and no more replacement pairs than the
\* range has indices, the keys being any
C35_SpliceWithinRangeAnyKeys ==
    (WellFormed(map, indices) /\ hasher = "valueOf")
        => SpliceTouchesOnlyRange(map, indices, FALSE, TRUE)

\* a map of two entries with the default hasher and a key that a splice
\* can bring in
C35_WithinRangeWitness ==
    /\ WellFormed(map, indices) /\ hasher = "valueOf" /\ size(map) = 2
    /\ \E k \in Keys :
         /\ ~has(map, k)
         /\ Len(splice(map, indices, 0, 1, <<<<k, 1>>>>).ret) = 1

Lengths == (0 - 1)..MaxKey

\* truncate(new_len) returns for every new_len of Lengths
TruncateReturns(mp, ind, lens) ==
    \A new_len \in lens : truncate(mp, ind, new_len).outcome # "hang"

\* C36: truncate(n) returns after finitely many pops for every integer n,
\* a negative n included, and every map, the maps made by withCapacity
\* (whose order array is longer than the table) and the empty maps
\* included.
C36_TruncateTerminates ==
    outcome = "ok" => TruncateReturns(map, indices, Lengths)

\* C36 for the lengths that are not negative, on the maps that satisfy
\* I1-I3 and whose order array is as long as the table
C36_TruncateToLengthTerminates ==
    (WellFormed(map, indices) /\ Len(indices) = size(map))
        => TruncateReturns(map, indices, 0..MaxKey)

\* a map of two entries that truncate(0) empties
C36_ToLengthWitness ==
    /\ WellFormed(map, indices) /\ size(map) = 2 /\ Len(indices) = 2
    /\ truncate(map, indices, 0).outcome = "ok"
    /\ truncate(map, indices, 0).indices = <<>>

\* C36 for the lengths that are not negative, on every map
C36_TruncateToLengthAnyMap ==
    outcome = "ok" => TruncateReturns(map, indices, 0..MaxKey)

\* the table iterates its keys in the order of the order array
TableInOrder(mp, ind) ==
    /\ Len(mp) = Len(ind)
    /\ \A p \in 1..Len(mp) : ind[p] # Hole /\ mp[p].k = hash(ind[p])

\* C37: after any sequence of set, setFull, delete, deleteEntry,
\* deleteFull, deleteIndex with an index in range, pop, shift, truncate(n)
\* with n >= 0 and clear on an empty map made by the constructor, every
\* call has returned, the hash table iterates its keys in the order of the
\* order array, and every key order[i] has a bucket whose stored index is i.
C37_AppendShiftRemoveFragment ==
    /\ outcome = "ok"
    /\ TableInOrder(map, indices)
    /\ I1(map, indices)

\* deleteIndex(0) has removed the first of three entries and the two
\* after it have moved down
C37_Witness ==
    /\ log = <<"deleteIndex", 0>>
    /\ size(map) = 2
    /\ TableInOrder(map, indices)
    /\ I1(map, indices)

\* r is what the claim says of toSorted(cmp) on the map (mp, ind): the new
\* map has the entries of the receiver, ordered by the comparator, with
\* the stored indices 0 .. size-1 matching the positions
ToSortedResult(mp, ind, cmp, r) ==
    /\ r.outcome = "ok"
    /\ Len(r.other.indices) = Len(ind)
    /\ {r.other.indices[i] : i \in 1..Len(r.other.indices)} = {ind[i] : i \in 1..Len(ind)}
    /\ size(r.other.map) = size(mp)
    /\ \A k \in Keys : has(mp, k) => get(r.other.map, k) = get(mp, k)
    /\ \A i, j \in 1..Len(r.other.indices) :
         i < j => compare(cmp, r.other.indices[j], r.other.indices[i]) # -1
    /\ WellFormed(r.other.map, r.other.indices)

\* the call left the table and the order array as they were
Untouched(mp, ind, r) == r.map = mp /\ r.indices = ind

\* C38: on a map that satisfies I1-I3, toSorted(cmp?) returns without
\* raising a new map with the same key-to-value entries, ordered by the
\* comparator (ascending without one), whose stored indices 0 .. size-1
\* match the positions, and leaves the receiver as it was.
C38_ToSorted ==
    WellFormed(map, indices) =>
    \A cmp \in Cmps :
        /\ ToSortedResult(map, indices, cmp, toSorted(map, indices, cmp))
        /\ Untouched(map, indices, toSorted(map, indices, cmp))

\* toSorted leaves the receiver as it was, whether it returns or raises
C38_ToSortedLeavesTheReceiver ==
    WellFormed(map, indices) =>
    \A cmp \in Cmps : Untouched(map, indices, toSorted(map, indices, cmp))

\* C38 on the empty map
C38_ToSortedOfEmpty ==
    (WellFormed(map, indices) /\ size(map) = 0) =>
    \A cmp \in Cmps : ToSortedResult(map, indices, cmp, toSorted(map, indices, cmp))

\* a map of two entries that are not in ascending order
C38_LeavesTheReceiverWitness ==
    /\ WellFormed(map, indices) /\ size(map) = 2
    /\ Prim(indices[1]) > Prim(indices[2])
    /\ toSorted(map, indices, "none").outcome = "TypeError"

\* difference(A, B) pulled with next() until it is done: the items yielded
Difference_collect(mp, ind, other) == difference(mp, ind, other, FALSE)

\* rf is what the claim says of folding difference(A, B), rn of pulling it
\* with next(): both visit the elements of A that are not in B, in A's
\* order
DifferenceFoldResult(ind, other, rf, rn) ==
    /\ rf.outcome = "ok"
    /\ rn.outcome = "ok"
    /\ rf.ret = Those(ind, other.indices, FALSE)
    /\ rn.outcome = "ok" => rn.ret = rf.ret

\* the fold of union(A, B) visits no element twice
UnionFoldResult(r) == r.outcome = "ok" /\ NoTwice(r.ret)

\* C39: for sets A and B, A satisfying I1-I3, folding difference(A, B)
\* visits exactly the elements that repeated next() calls yield, the
\* elements of A that are not in B in A's order, and folding union(A, B)
\* visits no element twice.
C39_FoldAgreesWithNext ==
    WellFormed(map, indices) =>
    \A other \in IndexSets :
        /\ DifferenceFoldResult(indices, other, differenceFold(map, indices, other),
                                Difference_collect(map, indices, other))
        /\ \A delegates \in BOOLEAN :
             UnionFoldResult(unionFold(map, indices, other, delegates))

\* the folds of C39 for a B that has no element of A, the chain folding
\* its two parts in turn: the fold of the difference visits the elements
\* of A, the fold of the union those of A and of B
C39_FoldWithDisjoint ==
    WellFormed(map, indices) =>
    \A other \in IndexSets :
        (\A j \in 1..Len(other.indices) : ~InSet(indices, other.indices[j])) =>
            /\ differenceFold(map, indices, other).ret = Those(indices, other.indices, FALSE)
            /\ UnionFoldResult(unionFold(map, indices, other, TRUE))

\* what the fold of difference(A, B) does: it returns and visits every
\* element of A, whatever B is
C39_DifferenceFoldVisitsAllOfA ==
    WellFormed(map, indices) =>
    \A other \in IndexSets :
        /\ differenceFold(map, indices, other).outcome = "ok"
        /\ differenceFold(map, indices, other).ret = indices

\* a set of two elements and a non-empty set that has none of them
C39_WithDisjointWitness ==
    /\ WellFormed(map, indices) /\ size(map) = 2
    /\ \E other \in IndexSets :
         /\ Len(other.indices) > 0
         /\ \A j \in 1..Len(other.indices) : ~InSet(indices, other.indices[j])
         /\ Len(unionFold(map, indices, other, TRUE).ret) = 3

\* C40: on a set that satisfies I1-I3, hasIndex(i) returns true exactly
\* when 0 <= i < size, and does not change the set.
C40_HasIndex ==
    WellFormed(map, indices) =>
    \A index \in Indexes :
        /\ hasIndex(map, indices, index).outcome = "ok"
        /\ hasIndex(map, indices, index).ret = <<0 <= index /\ index < size(map)>>
        /\ Untouched(map, indices, hasIndex(map, indices, index))

\* what hasIndex does: it returns false for every index, in range or not,
\* and does not change the set
C40_HasIndexIsFalse ==
    WellFormed(map, indices) =>
    \A index \in Indexes :
        /\ hasIndex(map, indices, index).outcome = "ok"
        /\ hasIndex(map, indices, index).ret = <<FALSE>>
        /\ Untouched(map, indices, hasIndex(map, indices, index))

\* a set of two elements, asked for an index in range
C40_IsFalseWitness ==
    /\ WellFormed(map, indices) /\ size(map) = 2
    /\ hasIndex(map, indices, 1).ret = <<FALSE>>

====
